---- MODULE Spec2Model ----
(***************************************************************************)
(* A model of Gocl's asynchronous completion events (gocl-event.c), the    *)
(* dispatch operations that create them (gocl-buffer.c, gocl-kernel.c) and *)
(* the error translation they rely on (gocl-error.c); of the synchronous   *)
(* operations and the asynchronous program build around the last-error     *)
(* slot (LibSpec); of the default contexts of gocl-context.c (ContextSpec);*)
(* and of gocl_event_then with its field accesses interleaved (RaceSpec).  *)
(* Smaller specifications cover gocl_event_list_to_array (ListSpec), the   *)
(* life of a command queue and its device (QueueSpec), the calls of        *)
(* gocl-error.c on the last-error slot (ErrorSpec), the GL sharing         *)
(* operations of gocl-device.c (GlSpec) and the callback of the            *)
(* hello-world example (ExampleSpec).                                      *)
(*                                                                         *)
(* GLib main contexts are modelled as queues of attached idle sources; a   *)
(* context iteration dispatches the earliest attached source of the        *)
(* highest priority.  The global default context is iterated by the thread *)
(* "main" (which has no thread-default context) and the context "X" by the *)
(* thread "T", whose thread-default context it is.                         *)
(***************************************************************************)
EXTENDS Integers, Sequences, FiniteSets, TLC

VARIABLES
  events,    \* GoclEventPrivate of every event, plus ref_count / finalized
  closures,  \* the Closure structs allocated by gocl_event_then, in order
  sources,   \* per main context: the attached GSources, in attach order
  native,    \* per event: state of the OpenCL command behind its cl_event
  waiter,    \* per event: position of wait_event_thread_func
  fired,     \* sequence of closures whose callback was invoked, in order
  hist,      \* per event: observations (threads spawned, steal results, ...)
  aborted,   \* a g_assert failed: the process is gone
  last_error,    \* gocl-error.c: the process-wide static GError *last_error
  device_queue,  \* gocl-device.c: priv->queue of the device the calls use
  call,          \* what the latest synchronous call did and returned
  build,         \* gocl-program.c: priv->building and the build in progress
  contexts,      \* gocl-context.c: the GoclContext objects created so far
  gocl_context_default_gpu,  \* the static pointers of gocl-context.c
  gocl_context_default_cpu,
  returned,      \* what the latest gocl_context_get_default_*_sync returned
  pc,            \* per thread: its position inside a gocl_event_then call
  event_list,    \* the GList handed to gocl_event_list_to_array
  event_arr,     \* what gocl_event_list_to_array returned and stored in *len
  queue_obj,     \* gocl-queue.c: the default GoclQueue of the device
  device_obj,    \* gocl-device.c: the GoclDevice the queue belongs to
  event_queue,   \* per event: priv->queue, what gocl_event_get_queue returns
  gl,            \* position of a gocl_device_acquire / release_gl_objects call
  error_call     \* the latest direct call of a gocl-error.c function

eventVars == <<events, closures, sources, native, waiter, fired, hist, aborted>>
errorVars == <<last_error, device_queue>>
syncVars == <<call, build>>
contextVars ==
  <<contexts, gocl_context_default_gpu, gocl_context_default_cpu, returned>>
raceVars == <<pc>>
listVars == <<event_list, event_arr>>
queueVars == <<queue_obj, device_obj, event_queue>>
glVars == <<gl>>
slotVars == <<error_call>>
restVars == <<listVars, queueVars, glVars, slotVars>>

vars == <<eventVars, errorVars, syncVars, contextVars, raceVars, restVars>>

----------------------------------------------------------------------------
(* Bounds *)

MaxClosures == 3
MaxSteals == 2
MaxResolverCalls == 2

\* Event objects share no state with each other but the source queues of the
\* main contexts, which never look at the event a source belongs to: one
\* event object is followed through its life
EventIds == {1}

----------------------------------------------------------------------------
(* Main contexts and threads *)

G_PRIORITY_DEFAULT == 0
G_PRIORITY_LOW == 300

Contexts == {"global", "X"}
AppThreads == {"main", "T"}

\* g_main_context_get_thread_default (): NULL unless the thread pushed one
g_main_context_get_thread_default(thread) ==
  IF thread = "T" THEN "X" ELSE "NULL"

\* the thread that iterates a context
LoopThread(ctx) == IF ctx = "X" THEN "T" ELSE "main"

\* timeout_add with timeout = 0: an idle source with the given priority is
\* attached to context, or to the caller's thread-default context when context
\* is NULL; g_source_attach (src, NULL) attaches to the global default context
timeout_add(srcs, context, thread, priority, callback, user_data) ==
  LET c1 == IF context = "NULL"
              THEN g_main_context_get_thread_default(thread)
              ELSE context
      c2 == IF c1 = "NULL" THEN "global" ELSE c1
  IN [srcs EXCEPT ![c2] = Append(@, [fn |-> callback,
                                      data |-> user_data,
                                      priority |-> priority])]

\* the source the next iteration of a context dispatches: highest priority
\* (lowest number) first, attach order within one priority
NextSource(q) ==
  CHOOSE i \in DOMAIN q :
    \A j \in DOMAIN q :
      \/ q[i].priority < q[j].priority
      \/ (q[i].priority = q[j].priority /\ i <= j)

RemoveAt(q, i) == SubSeq(q, 1, i - 1) \o SubSeq(q, i + 1, Len(q))

----------------------------------------------------------------------------
(* Errors (gocl-error.c) *)

NoError == [code |-> "NULL", message |-> "NULL"]

get_error_code_description(err_code) ==
  CASE err_code = "CL_SUCCESS" -> "Success!"
    [] err_code = "CL_DEVICE_NOT_FOUND" -> "Device not found."
    [] err_code = "CL_DEVICE_NOT_AVAILABLE" -> "Device not available"
    [] err_code = "CL_COMPILER_NOT_AVAILABLE" -> "Compiler not available"
    [] err_code = "CL_MEM_OBJECT_ALLOCATION_FAILURE" -> "Memory object allocation failure"
    [] err_code = "CL_OUT_OF_RESOURCES" -> "Out of resources"
    [] err_code = "CL_OUT_OF_HOST_MEMORY" -> "Out of host memory"
    [] err_code = "CL_PROFILING_INFO_NOT_AVAILABLE" -> "Profiling information not available"
    [] err_code = "CL_MEM_COPY_OVERLAP" -> "Memory copy overlap"
    [] err_code = "CL_IMAGE_FORMAT_MISMATCH" -> "Image format mismatch"
    [] err_code = "CL_IMAGE_FORMAT_NOT_SUPPORTED" -> "Image format not supported"
    [] err_code = "CL_BUILD_PROGRAM_FAILURE" -> "Program build failure"
    [] err_code = "CL_MAP_FAILURE" -> "Map failure"
    [] err_code = "CL_INVALID_VALUE" -> "Invalid value"
    [] err_code = "CL_INVALID_DEVICE_TYPE" -> "Invalid device type"
    [] err_code = "CL_INVALID_PLATFORM" -> "Invalid platform"
    [] err_code = "CL_INVALID_DEVICE" -> "Invalid device"
    [] err_code = "CL_INVALID_CONTEXT" -> "Invalid context"
    [] err_code = "CL_INVALID_QUEUE_PROPERTIES" -> "Invalid queue properties"
    [] err_code = "CL_INVALID_COMMAND_QUEUE" -> "Invalid command queue"
    [] err_code = "CL_INVALID_HOST_PTR" -> "Invalid host pointer"
    [] err_code = "CL_INVALID_MEM_OBJECT" -> "Invalid memory object"
    [] err_code = "CL_INVALID_IMAGE_FORMAT_DESCRIPTOR" -> "Invalid image format descriptor"
    [] err_code = "CL_INVALID_IMAGE_SIZE" -> "Invalid image size"
    [] err_code = "CL_INVALID_SAMPLER" -> "Invalid sampler"
    [] err_code = "CL_INVALID_BINARY" -> "Invalid binary"
    [] err_code = "CL_INVALID_BUILD_OPTIONS" -> "Invalid build options"
    [] err_code = "CL_INVALID_PROGRAM" -> "Invalid program"
    [] err_code = "CL_INVALID_PROGRAM_EXECUTABLE" -> "Invalid program executable"
    [] err_code = "CL_INVALID_KERNEL_NAME" -> "Invalid kernel name"
    [] err_code = "CL_INVALID_KERNEL_DEFINITION" -> "Invalid kernel definition"
    [] err_code = "CL_INVALID_KERNEL" -> "Invalid kernel"
    [] err_code = "CL_INVALID_ARG_INDEX" -> "Invalid argument index"
    [] err_code = "CL_INVALID_ARG_VALUE" -> "Invalid argument value"
    [] err_code = "CL_INVALID_ARG_SIZE" -> "Invalid argument size"
    [] err_code = "CL_INVALID_KERNEL_ARGS" -> "Invalid kernel arguments"
    [] err_code = "CL_INVALID_WORK_DIMENSION" -> "Invalid work dimension"
    [] err_code = "CL_INVALID_WORK_GROUP_SIZE" -> "Invalid work group size"
    [] err_code = "CL_INVALID_WORK_ITEM_SIZE" -> "Invalid work item size"
    [] err_code = "CL_INVALID_GLOBAL_OFFSET" -> "Invalid global offset"
    [] err_code = "CL_INVALID_EVENT_WAIT_LIST" -> "Invalid event wait list"
    [] err_code = "CL_INVALID_EVENT" -> "Invalid event"
    [] err_code = "CL_INVALID_OPERATION" -> "Invalid operation"
    [] err_code = "CL_INVALID_GL_OBJECT" -> "Invalid OpenGL object"
    [] err_code = "CL_INVALID_BUFFER_SIZE" -> "Invalid buffer size"
    [] err_code = "CL_INVALID_MIP_LEVEL" -> "Invalid mip-map level"
    [] OTHER -> "Unknown"

\* gocl_error_check_opencl (err_code, &error) with error == NULL on entry:
\* the GError left in error (NoError when err_code is CL_SUCCESS); the
\* function's boolean result is "the error is set"
gocl_error_check_opencl(err_code) ==
  IF err_code # "CL_SUCCESS"
    THEN [code |-> err_code, message |-> get_error_code_description(err_code)]
    ELSE NoError

\* the status codes a native enqueue is taken to return; CL_INVALID_PROPERTY
\* is a code the description table does not list
EnqueueCodes ==
  {"CL_SUCCESS", "CL_OUT_OF_RESOURCES", "CL_INVALID_PROPERTY"}

\* the errors the holder of a resolver may pass to it
ResolverErrors ==
  {NoError, gocl_error_check_opencl("CL_MAP_FAILURE"),
   gocl_error_check_opencl("CL_INVALID_EVENT")}

\* gocl_error_check_opencl_internal (err_code): the slot is cleared, then set
\* when err_code is an error; the value last_error holds afterwards (the
\* function's boolean result is "the slot is set")
gocl_error_check_opencl_internal(err_code) == gocl_error_check_opencl(err_code)

\* gocl_error_prepare (): the slot is cleared and its address returned
gocl_error_prepare == NoError

\* gocl_error_get_last (): g_error_copy of what the slot holds at the moment
\* of the call, NULL for an empty slot
gocl_error_get_last(slot) == slot

\* the error clCreateCommandQueue leaves in gocl_queue_initable_init
QueueCreationError == gocl_error_check_opencl("CL_INVALID_QUEUE_PROPERTIES")

\* gocl_device_get_default_queue (self) for a device whose priv->queue is
\* queue, with the slot as given; created: clCreateCommandQueue succeeds.
\* The result is <<the queue returned and kept in priv->queue, the slot>>
gocl_device_get_default_queue(queue, slot, created) ==
  IF queue # "NULL" THEN <<queue, slot>>
  ELSE IF created THEN <<"queue", gocl_error_prepare>>
  ELSE <<"NULL", QueueCreationError>>

----------------------------------------------------------------------------
(* GoclEvent objects (gocl-event.c) *)

\* gocl_event_init: the private struct of an event slot nobody has
\* constructed yet (origin "none") and the field values g_object_new starts
\* from
gocl_event_init ==
  [ origin           |-> "none",    \* the function that constructed it
    err_code         |-> "CL_SUCCESS", \* status of the native enqueue behind it
    event            |-> "NULL",    \* cl_event handle
    error            |-> NoError,
    resolver_func    |-> "gocl_event_resolve",
    already_resolved |-> FALSE,
    waiting_event    |-> FALSE,
    closure_list     |-> <<>>,
    thread           |-> "NULL",
    unref_src_id     |-> 0,
    ref_count        |-> 0,
    finalized        |-> FALSE,
    released         |-> 0,         \* clReleaseEvent calls made on the handle
    error_freed      |-> 0 ]        \* g_error_free calls made on the error

HistInit ==
  [ spawned  |-> 0,      \* g_thread_new calls made for the event
    steals   |-> <<>>,   \* per steal call: did it return the resolver
    holder   |-> FALSE,  \* somebody outside Gocl holds the resolver
    posted   |-> 0,      \* event_completed sources posted by waiter threads
    calls    |-> 0,      \* calls of the resolver
    rejected |-> 0 ]     \* resolver calls stopped by g_return_if_fail

\* no synchronous call was made yet
CallInit ==
  [ op       |-> "none",
    status   |-> "CL_SUCCESS",  \* what the native call returned
    blocking |-> FALSE,  \* the call returned after the native command completed
    ret      |-> "NULL", \* the value returned
    failure  |-> NoError,  \* the error the operation ran into
    error    |-> NoError,  \* what the call left in its GError ** argument
    waited_on |-> "none",  \* the cl_event it gave clWaitForEvents and released
    seq      |-> 0 ]     \* flips with every call

\* a program nobody builds
BuildInit ==
  [ building     |-> FALSE,   \* priv->building
    thread       |-> "none",  \* position of build_in_thread
    running      |-> 0,       \* threads that are inside build_in_thread
    status       |-> "CL_SUCCESS",  \* what clBuildProgram returned
    res_error    |-> NoError, \* the error held by the GSimpleAsyncResult
    rejected     |-> FALSE,   \* a call found a build pending
    finish       |-> "none",  \* what gocl_program_build_finish returned
    finish_error |-> NoError ]

\* no default context was asked for yet
ReturnedInit == [ fn |-> "none", context |-> 0, created |-> FALSE,
                  finalized |-> FALSE ]

\* a thread outside gocl_event_then
PcInit == [ at |-> "out", self |-> 0, closure |-> 0, list |-> <<>> ]

\* gocl_event_list_to_array was not called yet
ArrayInit ==
  [ called    |-> FALSE,
    allocated |-> FALSE,   \* the returned pointer is not NULL
    arr       |-> <<>>,    \* the cl_event handles stored in the array
    len_set   |-> FALSE,   \* *len was written
    len       |-> 0 ]

\* no GoclQueue object was constructed yet
QueueInit ==
  [ created   |-> FALSE,
    queue     |-> "NULL",  \* priv->queue, the cl_command_queue
    device    |-> FALSE,   \* priv->device is set (a counted reference)
    ref_count |-> 0,
    app_refs  |-> 0,       \* references the application holds
    finalized |-> FALSE,
    released  |-> 0 ]      \* clReleaseCommandQueue calls made

\* the application holds the one reference to the device
DeviceInit ==
  [ ref_count |-> 1,
    app_refs  |-> 1,
    finalized |-> FALSE ]

\* no gocl_device_acquire_gl_objects / release_gl_objects call is under way
GlInit ==
  [ at      |-> "out",   \* position of the call
    op      |-> "none",
    objects |-> "NULL",  \* the object_list argument
    queue   |-> "NULL",  \* the caller's local queue
    status  |-> "NOT_ENQUEUED",  \* what the native enqueue returned
    ret     |-> TRUE,    \* what acquire_or_release_gl_objects returned
    event   |-> "UNSET" ]  \* the caller's local cl_event

\* no function of gocl-error.c was called directly yet
ErrorCallInit ==
  [ fn      |-> "none",
    code    |-> "CL_SUCCESS",  \* the err_code argument
    in_slot |-> FALSE,   \* the GError ** argument is the address of the slot
    ret     |-> NoError, \* the error returned or left in the GError **
    seq     |-> 0 ]      \* flips with every call

\* the state every specification starts from, but for the list handed to
\* gocl_event_list_to_array
BaseInit ==
  /\ events = [e \in EventIds |-> gocl_event_init]
  /\ closures = <<>>
  /\ sources = [c \in Contexts |-> <<>>]
  /\ native = [e \in EventIds |-> "none"]
  /\ waiter = [e \in EventIds |-> "none"]
  /\ fired = <<>>
  /\ hist = [e \in EventIds |-> HistInit]
  /\ aborted = FALSE
  /\ last_error = NoError
  /\ device_queue = "NULL"
  /\ call = CallInit
  /\ build = BuildInit
  /\ contexts = <<>>
  /\ gocl_context_default_gpu = 0
  /\ gocl_context_default_cpu = 0
  /\ returned = ReturnedInit
  /\ pc = [t \in AppThreads |-> PcInit]
  /\ event_arr = ArrayInit
  /\ queue_obj = QueueInit
  /\ device_obj = DeviceInit
  /\ event_queue = [e \in EventIds |-> "NULL"]
  /\ gl = GlInit
  /\ error_call = ErrorCallInit

Init == BaseInit /\ event_list = <<>>

\* the event slot the next constructor call fills
Fresh(e) ==
  /\ events[e].origin = "none"
  /\ \A d \in EventIds : d < e => events[d].origin # "none"

Live(e) == events[e].origin # "none" /\ ~events[e].finalized

\* g_object_new (GOCL_TYPE_EVENT, "queue", queue, ["event", event,] NULL):
\* gocl_event_init, then set_property for each construct property
g_object_new(origin, err_code, event) ==
  [gocl_event_init EXCEPT !.origin = origin,
                          !.err_code = err_code,
                          !.event = event,
                          !.ref_count = 1]

\* gocl_event_finalize (run by the g_object_unref that drops the last
\* reference): the handle, the error and the thread are released, the
\* closures still listed are freed
gocl_event_finalize(ev) ==
  [ev EXCEPT !.finalized = TRUE, !.closure_list = <<>>,
             !.released = IF ev.event # "NULL" THEN @ + 1 ELSE @,
             !.error_freed = IF ev.error # NoError THEN @ + 1 ELSE @]

g_object_unref(ev) ==
  IF ev.ref_count = 1
    THEN gocl_event_finalize([ev EXCEPT !.ref_count = 0])
    ELSE IF ev.ref_count = 0 THEN ev
    ELSE [ev EXCEPT !.ref_count = @ - 1]

\* a g_object_ref that takes no reference
g_object_ref_none(ev) == ev

g_object_ref(ev) == [ev EXCEPT !.ref_count = @ + 1]

\* the closures a finalization frees with g_list_free_full (.., free_closure)
FreeListed(cls, before, after) ==
  [i \in DOMAIN cls |->
     IF after.finalized /\ ~before.finalized
        /\ \E k \in DOMAIN before.closure_list : before.closure_list[k] = i
       THEN [cls[i] EXCEPT !.freed = TRUE]
       ELSE cls[i]]

\* gocl_event_resolve (self, error), the resolver function
gocl_event_resolve_unguarded(ev, error) ==
  [ev EXCEPT !.already_resolved = TRUE, !.error = error]

gocl_event_resolve(ev, error) ==
  IF ev.already_resolved
    THEN ev          \* g_return_if_fail (! self->priv->already_resolved)
    ELSE [ev EXCEPT !.already_resolved = TRUE,
                    !.error = IF error # NoError THEN error ELSE @]

\* gocl_event_steal_resolver_func: the returned function
StolenFunc(ev) == ev.resolver_func

gocl_event_steal_keep(ev) == ev

gocl_event_steal_resolver_func(ev) == [ev EXCEPT !.resolver_func = "NULL"]

\* the record of one more steal call on an event
NoteSteal(h, ev) == [h EXCEPT !.steals = Append(@, StolenFunc(ev) # "NULL")]

\* gocl_event_idle_unref (self) called on the given thread
gocl_event_idle_unref(ev, srcs, e, thread) ==
  IF ev.unref_src_id # 0
    THEN <<ev, srcs>>
    ELSE <<[ev EXCEPT !.unref_src_id = 1],
           timeout_add(srcs, "NULL", thread, G_PRIORITY_LOW, "unref_in_idle", e)>>

----------------------------------------------------------------------------
(* Dispatch operations (gocl-buffer.c, gocl-kernel.c) *)

\* the event gocl_buffer_write / _read / _map construct for the status the
\* native enqueue returned, up to the call of gocl_event_idle_unref
buffer_event_unresolved(op, err_code) ==
  IF gocl_error_check_opencl(err_code) # NoError
    THEN gocl_event_steal_resolver_func(g_object_new(op, err_code, "NULL"))
    ELSE gocl_event_steal_resolver_func(g_object_new(op, err_code, "H"))

buffer_event(op, err_code) ==
  LET error == gocl_error_check_opencl(err_code) IN
  IF error # NoError
    THEN gocl_event_resolve(
           gocl_event_steal_resolver_func(g_object_new(op, err_code, "NULL")),
           error)
    ELSE gocl_event_steal_resolver_func(g_object_new(op, err_code, "H"))

BufferDispatch(op, e, err_code, thread) ==
  LET ev == buffer_event(op, err_code)
      r  == gocl_event_idle_unref(ev, sources, e, thread)
  IN /\ ~aborted
     /\ Fresh(e)
     /\ events' = [events EXCEPT ![e] = r[1]]
     /\ sources' = r[2]
     /\ native' = [native EXCEPT ![e] = IF ev.event = "NULL" THEN "none"
                                                            ELSE "queued"]
     /\ hist' = [hist EXCEPT ![e].steals = <<TRUE>>]
     /\ UNCHANGED <<closures, waiter, fired, aborted>>
     /\ UNCHANGED <<errorVars, syncVars, contextVars, restVars, raceVars>>

gocl_buffer_write(e, err_code, thread) ==
  BufferDispatch("gocl_buffer_write", e, err_code, thread)

gocl_buffer_read(e, err_code, thread) ==
  BufferDispatch("gocl_buffer_read", e, err_code, thread)

gocl_buffer_map(e, err_code, thread) ==
  BufferDispatch("gocl_buffer_map", e, err_code, thread)

\* the errors gocl_device_get_default_queue may leave when it returns no
\* queue: the header's version fills the GError, the one in gocl-device.c
\* takes no error argument and leaves the caller's error NULL
QueueErrors == {NoError, gocl_error_check_opencl("CL_INVALID_QUEUE_PROPERTIES")}

\* the event gocl_kernel_run_in_device returns: queue_error is the error of
\* a failed gocl_device_get_default_queue ("queue" when there is a queue)
kernel_event(queue, queue_error, err_code) ==
  LET first == gocl_event_steal_resolver_func(
                 g_object_new("gocl_kernel_run_in_device", err_code, "NULL"))
  IN IF queue = "NULL"
       THEN gocl_event_resolve([first EXCEPT !.err_code = "NOT_ENQUEUED"],
                               queue_error)
     ELSE IF gocl_error_check_opencl(err_code) # NoError
       \* resolver_func = gocl_event_steal_resolver_func (_event); goto out;
       THEN gocl_event_steal_resolver_func(first)
     ELSE gocl_event_steal_resolver_func(
            g_object_new("gocl_kernel_run_in_device", err_code, "H"))

gocl_kernel_run_in_device(e, queue, queue_error, err_code, thread) ==
  LET ev == kernel_event(queue, queue_error, err_code)
      r  == gocl_event_idle_unref(ev, sources, e, thread)
      enqueue_failed ==
        queue # "NULL" /\ gocl_error_check_opencl(err_code) # NoError
      q  == gocl_device_get_default_queue(device_queue, last_error,
                                          queue # "NULL")
  IN /\ ~aborted
     /\ Fresh(e)
     /\ q[1] = queue
     /\ device_queue' = q[1]
     /\ last_error' = q[2]
     /\ queue = "NULL" => err_code = "CL_SUCCESS"
     /\ queue # "NULL" => queue_error = NoError
     /\ events' = [events EXCEPT ![e] = r[1]]
     /\ sources' = r[2]
     /\ native' = [native EXCEPT ![e] = IF ev.event = "NULL" THEN "none"
                                                            ELSE "queued"]
     /\ hist' = [hist EXCEPT ![e].steals =
                   IF enqueue_failed THEN <<TRUE, FALSE>> ELSE <<TRUE>>]
     /\ UNCHANGED <<closures, waiter, fired, aborted>>
     /\ UNCHANGED <<syncVars, contextVars, restVars, raceVars>>

\* an event constructed outside the dispatch operations, as the documentation
\* of GoclEventResolverFunc describes: the creator steals the resolver and
\* calls it when its operation completes
CreateEvent(e, event) ==
  /\ ~aborted
  /\ Fresh(e)
  /\ events' = [events EXCEPT ![e] = g_object_new("g_object_new", "CL_SUCCESS", event)]
  /\ native' = [native EXCEPT ![e] = IF event = "NULL" THEN "none" ELSE "queued"]
  /\ UNCHANGED <<closures, sources, waiter, fired, hist, aborted>>
  /\ UNCHANGED <<errorVars, syncVars, contextVars, restVars, raceVars>>

\* gocl_event_steal_resolver_func called on a live event
StealResolver(e) ==
  /\ ~aborted
  /\ Live(e)
  /\ Len(hist[e].steals) < MaxSteals
  /\ events' = [events EXCEPT ![e] = gocl_event_steal_resolver_func(@)]
  /\ hist' = [hist EXCEPT ![e] =
                [NoteSteal(@, events[e]) EXCEPT
                   !.holder = @ \/ StolenFunc(events[e]) # "NULL"]]
  /\ UNCHANGED <<closures, sources, native, waiter, fired, aborted>>
  /\ UNCHANGED <<errorVars, syncVars, contextVars, restVars, raceVars>>

\* the holder of a stolen resolver calls it
CallResolver(e, error) ==
  /\ ~aborted
  /\ Live(e)
  /\ hist[e].holder
  /\ hist[e].calls < MaxResolverCalls
  /\ events' = [events EXCEPT ![e] = gocl_event_resolve(@, error)]
  /\ hist' = [hist EXCEPT ![e].calls = @ + 1,
                          ![e].rejected =
                             IF events[e].already_resolved THEN @ + 1 ELSE @]
  /\ UNCHANGED <<closures, sources, native, waiter, fired, aborted>>
  /\ UNCHANGED <<errorVars, syncVars, contextVars, restVars, raceVars>>

\* the creator of an event it constructed itself hands its reference to an
\* idle call, as the dispatch operations do
IdleUnref(e, thread) ==
  LET r == gocl_event_idle_unref(events[e], sources, e, thread)
  IN /\ ~aborted
     /\ Live(e)
     /\ events[e].origin = "g_object_new"
     /\ events' = [events EXCEPT ![e] = r[1]]
     /\ sources' = r[2]
     /\ UNCHANGED <<closures, native, waiter, fired, hist, aborted>>
     /\ UNCHANGED <<errorVars, syncVars, contextVars, restVars, raceVars>>

----------------------------------------------------------------------------
(* Continuations (gocl-event.c) *)

\* the Closure gocl_event_then allocates; registered records the branch the
\* call took and is not a field of the struct
NewClosure(e, thread, registered) ==
  [ self       |-> e,
    context    |-> g_main_context_get_thread_default(thread),
    freed      |-> FALSE,
    got        |-> NoError,      \* the error its callback was handed
    got_freed  |-> FALSE,        \* ... which had been freed by then
    ran_on     |-> "NULL",       \* the thread its callback was invoked on
    registered |-> registered ]

Branch(ev) ==
  IF ev.already_resolved THEN "resolved"
  ELSE IF ~ev.waiting_event THEN "spawn"
  ELSE "waiting"

\* gocl_event_then calling the callback itself when the event is resolved
gocl_event_then_inline(e, thread) ==
  LET ev == events[e]
      c  == Len(closures) + 1
      held == g_object_ref(g_object_ref(ev))
  IN /\ ~aborted
     /\ Live(e)
     /\ c <= MaxClosures
     /\ IF ev.already_resolved
          THEN /\ closures' = Append(closures,
                                     [NewClosure(e, thread, Branch(ev)) EXCEPT
                                        !.got = ev.error, !.freed = TRUE,
                                        !.ran_on = thread])
               /\ fired' = Append(fired, c)
               /\ UNCHANGED <<events, sources, waiter, hist, aborted>>
        ELSE IF ~ev.waiting_event
          THEN /\ ev.event # "NULL"
               /\ closures' = Append(closures, NewClosure(e, thread, Branch(ev)))
               /\ events' = [events EXCEPT ![e] =
                     [held EXCEPT !.waiting_event = TRUE,
                                  !.closure_list = Append(@, c),
                                  !.thread = "gocl-event-thread"]]
               /\ waiter' = [waiter EXCEPT ![e] = "blocked"]
               /\ hist' = [hist EXCEPT ![e].spawned = @ + 1]
               /\ UNCHANGED <<sources, fired, aborted>>
        ELSE /\ closures' = Append(closures, NewClosure(e, thread, Branch(ev)))
             /\ events' = [events EXCEPT ![e] = held]
             /\ UNCHANGED <<sources, waiter, fired, hist, aborted>>
     /\ UNCHANGED native
     /\ UNCHANGED <<errorVars, syncVars, contextVars, restVars, raceVars>>

\* gocl_event_then (self, callback, user_data) called on the given thread
gocl_event_then(e, thread) ==
  LET ev == events[e]
      c  == Len(closures) + 1
      held == g_object_ref(g_object_ref(ev))
  IN /\ ~aborted
     /\ Live(e)
     /\ c <= MaxClosures
     /\ closures' = Append(closures, NewClosure(e, thread, Branch(ev)))
     /\ IF ev.already_resolved
          THEN /\ sources' = timeout_add(sources, closures'[c].context, thread,
                                         G_PRIORITY_DEFAULT,
                                         "notify_event_completed_in_caller_context", c)
               /\ events' = [events EXCEPT ![e] = held]
               /\ UNCHANGED <<waiter, hist, aborted>>
        ELSE IF ~ev.waiting_event
          THEN IF ev.event = "NULL"
                 \* g_assert (self->priv->event != NULL)
                 THEN /\ aborted' = TRUE
                      /\ events' = [events EXCEPT ![e] = held]
                      /\ UNCHANGED <<sources, waiter, hist>>
                 ELSE /\ events' = [events EXCEPT ![e] =
                            [held EXCEPT !.waiting_event = TRUE,
                                         !.closure_list = Append(@, c),
                                         !.thread = "gocl-event-thread"]]
                      /\ waiter' = [waiter EXCEPT ![e] = "blocked"]
                      /\ hist' = [hist EXCEPT ![e].spawned = @ + 1]
                      /\ UNCHANGED <<sources, aborted>>
        ELSE /\ events' = [events EXCEPT ![e] = held]
             /\ UNCHANGED <<sources, waiter, hist, aborted>>
     /\ UNCHANGED <<native, fired>>
     /\ UNCHANGED <<errorVars, syncVars, contextVars, restVars, raceVars>>

\* the OpenCL command behind a cl_event completes
NativeComplete(e) ==
  /\ ~aborted
  /\ native[e] = "queued"
  /\ native' = [native EXCEPT ![e] = "complete"]
  /\ UNCHANGED <<events, closures, sources, waiter, fired, hist, aborted>>
  /\ UNCHANGED <<errorVars, syncVars, contextVars, restVars, raceVars>>

\* a waiter thread that invokes the listed callbacks itself
wait_event_thread_func_direct(e) ==
  /\ ~aborted
  /\ waiter[e] = "blocked"
  /\ native[e] = "complete"
  /\ fired' = fired \o events[e].closure_list
  /\ closures' = [c \in DOMAIN closures |->
                    IF \E k \in DOMAIN events[e].closure_list :
                         events[e].closure_list[k] = c
                      THEN [closures[c] EXCEPT !.got = events[e].error,
                                               !.ran_on = "gocl-event-thread",
                                               !.freed = TRUE]
                      ELSE closures[c]]
  /\ events' = [events EXCEPT ![e] =
                  [@ EXCEPT !.already_resolved = TRUE, !.waiting_event = FALSE,
                            !.closure_list = <<>>]]
  /\ waiter' = [waiter EXCEPT ![e] = "exited"]
  /\ UNCHANGED <<sources, native, hist, aborted>>
  /\ UNCHANGED <<errorVars, syncVars, contextVars, restVars, raceVars>>

\* wait_event_thread_func: clWaitForEvents returns, the thread posts
\* event_completed from its own thread, which has no thread-default context
wait_event_thread_func(e) ==
  /\ ~aborted
  /\ waiter[e] = "blocked"
  /\ native[e] = "complete"
  /\ sources' = timeout_add(sources, "NULL", "gocl-event-thread",
                            G_PRIORITY_DEFAULT, "event_completed", e)
  /\ hist' = [hist EXCEPT ![e].posted = @ + 1]
  /\ waiter' = [waiter EXCEPT ![e] =
                  IF hist[e].posted + 1 >= hist[e].spawned THEN "exited"
                                                           ELSE "blocked"]
  /\ UNCHANGED <<events, closures, native, fired, aborted>>
  /\ UNCHANGED <<errorVars, syncVars, contextVars, restVars, raceVars>>

\* the source a context's next iteration dispatches is callback fn
Dispatches(ctx, fn) ==
  /\ ~aborted
  /\ sources[ctx] # <<>>
  /\ sources[ctx][NextSource(sources[ctx])].fn = fn

\* the callback returned FALSE: its source is removed from the context
Dequeued_continue(ctx) == sources

Dequeued(ctx) == [sources EXCEPT ![ctx] = RemoveAt(@, NextSource(@))]

RECURSIVE ScheduleAll(_, _, _)
\* the loop of event_completed: one idle source per listed closure, in order
ScheduleAll(srcs, list, thread) ==
  IF list = <<>> THEN srcs
  ELSE ScheduleAll(timeout_add(srcs, closures[Head(list)].context, thread,
                               G_PRIORITY_DEFAULT,
                               "notify_event_completed_in_caller_context",
                               Head(list)),
                   Tail(list), thread)

\* the fields event_completed sets
event_completed_fields_unresolved(ev) ==
  [ev EXCEPT !.waiting_event = FALSE, !.closure_list = <<>>]

event_completed_fields_clear_error(ev) ==
  [ev EXCEPT !.already_resolved = TRUE, !.waiting_event = FALSE,
             !.closure_list = <<>>, !.error = NoError]

\* event_completed releasing the handle the waiter is done with
event_completed_fields_release(ev) ==
  [ev EXCEPT !.already_resolved = TRUE, !.waiting_event = FALSE,
             !.closure_list = <<>>, !.released = @ + 1]

event_completed_fields(ev) ==
  [ev EXCEPT !.already_resolved = TRUE, !.waiting_event = FALSE,
             !.closure_list = <<>>]

\* event_completed dispatched by an iteration of ctx
event_completed(ctx) ==
  LET e == sources[ctx][NextSource(sources[ctx])].data
  IN /\ Dispatches(ctx, "event_completed")
     /\ events' = [events EXCEPT ![e] = event_completed_fields(@)]
     /\ sources' = ScheduleAll(Dequeued(ctx), events[e].closure_list,
                               LoopThread(ctx))
     /\ UNCHANGED <<closures, native, waiter, fired, hist, aborted>>
     /\ UNCHANGED <<errorVars, syncVars, contextVars, restVars, raceVars>>

\* notify_event_completed_in_caller_context dispatched by an iteration of ctx
notify_event_completed_in_caller_context(ctx) ==
  LET c  == sources[ctx][NextSource(sources[ctx])].data
      e  == closures[c].self
      ev == g_object_unref(g_object_unref(events[e]))
  IN /\ Dispatches(ctx, "notify_event_completed_in_caller_context")
     /\ fired' = Append(fired, c)
     /\ events' = [events EXCEPT ![e] = ev]
     /\ closures' = FreeListed([closures EXCEPT ![c].got = events[e].error,
                                                ![c].got_freed =
                                                  /\ events[e].error # NoError
                                                  /\ events[e].error_freed > 0,
                                                ![c].ran_on = LoopThread(ctx),
                                                ![c].freed = TRUE],
                               events[e], ev)
     /\ sources' = Dequeued(ctx)
     /\ UNCHANGED <<native, waiter, hist, aborted>>
     /\ UNCHANGED <<errorVars, syncVars, contextVars, restVars, raceVars>>

\* unref_in_idle dispatched by an iteration of ctx
unref_in_idle(ctx) ==
  LET e  == sources[ctx][NextSource(sources[ctx])].data
      ev == g_object_unref(events[e])
  IN /\ Dispatches(ctx, "unref_in_idle")
     /\ events' = [events EXCEPT ![e] = ev]
     /\ closures' = FreeListed(closures, events[e], ev)
     /\ sources' = Dequeued(ctx)
     /\ UNCHANGED <<native, waiter, fired, hist, aborted>>
     /\ UNCHANGED <<errorVars, syncVars, contextVars, restVars, raceVars>>

----------------------------------------------------------------------------

Next ==
  \/ \E e \in EventIds, x \in EnqueueCodes, t \in AppThreads :
       gocl_buffer_write(e, x, t)
  \/ \E e \in EventIds, x \in EnqueueCodes, t \in AppThreads :
       gocl_buffer_read(e, x, t)
  \/ \E e \in EventIds, x \in EnqueueCodes, t \in AppThreads :
       gocl_buffer_map(e, x, t)
  \/ \E e \in EventIds, q \in {"queue", "NULL"}, qe \in QueueErrors,
        x \in EnqueueCodes, t \in AppThreads :
       gocl_kernel_run_in_device(e, q, qe, x, t)
  \/ \E e \in EventIds, h \in {"H", "NULL"} : CreateEvent(e, h)
  \/ \E e \in EventIds : StealResolver(e)
  \/ \E e \in EventIds, err \in ResolverErrors : CallResolver(e, err)
  \/ \E e \in EventIds, t \in AppThreads : IdleUnref(e, t)
  \/ \E e \in EventIds, t \in AppThreads : gocl_event_then(e, t)
  \/ \E e \in EventIds : NativeComplete(e)
  \/ \E e \in EventIds : wait_event_thread_func(e)
  \/ \E ctx \in Contexts : event_completed(ctx)
  \/ \E ctx \in Contexts : notify_event_completed_in_caller_context(ctx)
  \/ \E ctx \in Contexts : unref_in_idle(ctx)

Spec == Init /\ [][Next]_vars

----------------------------------------------------------------------------
(* What the properties below speak of *)

\* how often a closure's callback has been invoked
Calls(c) == Cardinality({i \in DOMAIN fired : fired[i] = c})

\* the idle sources attached for a closure in one context / in all of them
ScheduledIn(ctx, c) ==
  Cardinality({i \in DOMAIN sources[ctx] :
                 /\ sources[ctx][i].fn = "notify_event_completed_in_caller_context"
                 /\ sources[ctx][i].data = c})

Scheduled(c) == ScheduledIn("global", c) + ScheduledIn("X", c)

\* the places a closure takes in the list of its event
Listed(c) ==
  Cardinality({k \in DOMAIN events[closures[c].self].closure_list :
                 events[closures[c].self].closure_list[k] = c})

\* the context a thread's registrations are delivered on
RegisteringContext(thread) == IF thread = "T" THEN "X" ELSE "global"

\* event_completed has run for the event
Completed(e) ==
  /\ waiter[e] = "exited"
  /\ \A ctx \in Contexts : \A i \in DOMAIN sources[ctx] :
       ~(sources[ctx][i].fn = "event_completed" /\ sources[ctx][i].data = e)

BufferOps == {"gocl_buffer_write", "gocl_buffer_read", "gocl_buffer_map"}

FailedBuffer(e) ==
  events[e].origin \in BufferOps /\ events[e].err_code # "CL_SUCCESS"

FailedKernel(e) ==
  /\ events[e].origin = "gocl_kernel_run_in_device"
  /\ events[e].err_code \notin {"CL_SUCCESS", "NOT_ENQUEUED"}

ThenStep == \E e \in EventIds, t \in AppThreads : gocl_event_then(e, t)

----------------------------------------------------------------------------
(* C1 -- C10 *)

\* C1: a continuation registered while the event is pending and its waiter
\* is running is kept: until its callback has run it is in the event's
\* closure list or scheduled on a main context -- it is never dropped.
C1_WaitingContinuationKept ==
  \A c \in DOMAIN closures :
    closures[c].registered = "waiting" =>
      Listed(c) + Scheduled(c) + Calls(c) >= 1

\* C2: continuations of one event registered from one main context fire in
\* the order of their gocl_event_then calls: when a callback runs, every
\* continuation registered earlier on the same event from the same context
\* has already run.
C2_RegistrationOrder ==
  \A i \in DOMAIN fired : \A c \in DOMAIN closures :
    ( /\ c < fired[i]
      /\ closures[c].self = closures[fired[i]].self
      /\ closures[c].context = closures[fired[i]].context )
    => \E j \in 1..(i - 1) : fired[j] = c

\* C3: gocl_event_then never invokes a callback itself; on a resolved event
\* it attaches one idle source for the new closure to the registering
\* context; callbacks run only from the dispatch of such a source, and are
\* handed the error stored in the event.
C3_ThenNeverCallsBack ==
  /\ [][ThenStep => fired' = fired]_vars
  /\ [][\A e \in EventIds, t \in AppThreads :
          (gocl_event_then(e, t) /\ events[e].already_resolved) =>
            /\ sources'[RegisteringContext(t)] =
                 Append(sources[RegisteringContext(t)],
                        [fn |-> "notify_event_completed_in_caller_context",
                         data |-> Len(closures'),
                         priority |-> G_PRIORITY_DEFAULT])
            /\ \A ctx \in Contexts \ {RegisteringContext(t)} :
                 sources'[ctx] = sources[ctx]]_vars
  /\ [][fired' # fired =>
          \E ctx \in Contexts :
            /\ Dispatches(ctx, "notify_event_completed_in_caller_context")
            /\ fired' = Append(fired, sources[ctx][NextSource(sources[ctx])].data)
            /\ sources'[ctx] = RemoveAt(sources[ctx], NextSource(sources[ctx]))]_vars
  /\ [](\A i \in DOMAIN fired :
          closures[fired[i]].got = events[closures[fired[i]].self].error)

\* a continuation registered on an event that was already resolved with an
\* error has been called back with that error
C3_Witness ==
  \E c \in DOMAIN closures :
    /\ closures[c].registered = "resolved"
    /\ Calls(c) = 1
    /\ closures[c].got # NoError
    /\ closures[c].got = events[closures[c].self].error

\* C4: at most one waiter thread is ever spawned for an event.
C4_SingleWaiter == \A e \in EventIds : hist[e].spawned <= 1

\* one thread was spawned for an event that took a registration while the
\* waiter was running and another one after it was resolved
C4_Witness ==
  \E e \in EventIds :
    /\ hist[e].spawned = 1
    /\ Completed(e)
    /\ \E c, d \in DOMAIN closures :
         /\ closures[c].self = e /\ closures[c].registered = "waiting"
         /\ closures[d].self = e /\ closures[d].registered = "resolved"

\* C5: a closure is delivered at most once: it is listed, or scheduled once,
\* or has been called once, never two of these, and it is freed as soon as
\* it has been called.
C5_AtMostOnce ==
  \A c \in DOMAIN closures :
    /\ Listed(c) + Scheduled(c) + Calls(c) <= 1
    /\ Calls(c) = 1 <=> closures[c].freed

\* a continuation scheduled by gocl_event_then ran before event_completed
\* scheduled the listed one, and the resolver was called once more
C5_Witness ==
  /\ Len(fired) >= 2
  /\ closures[fired[1]].registered = "resolved"
  /\ closures[fired[2]].registered = "spawn"
  /\ closures[fired[1]].self = closures[fired[2]].self
  /\ hist[closures[fired[1]].self].rejected >= 1
  /\ Completed(closures[fired[1]].self)

\* C6: a call of the resolver on a resolved event changes nothing of the
\* event: it stays resolved and keeps its stored error.
C6_ResolveRejected ==
  [][\A e \in EventIds, err \in ResolverErrors :
       (CallResolver(e, err) /\ events[e].already_resolved) =>
         events'[e] = events[e]]_vars

\* the resolver was called on an event resolved with an error
C6_Witness ==
  \E e \in EventIds :
    /\ hist[e].rejected >= 1
    /\ events[e].already_resolved
    /\ events[e].error # NoError

\* C7: the first steal of an event's resolver returns it, every later one
\* returns NULL.
C7_StealOnce ==
  \A e \in EventIds : \A i \in DOMAIN hist[e].steals :
    hist[e].steals[i] = (i = 1)

\* the resolver of an event was asked for twice
C7_Witness ==
  \E e \in EventIds :
    /\ Len(hist[e].steals) >= 2
    /\ hist[e].holder
    /\ events[e].resolver_func = "NULL"

\* C8: a resolved event stays resolved and keeps its stored error, and only
\* a call of the resolver (by its holder, or by the dispatch operation that
\* constructs the event) ever changes the stored error.
C8_ResolvedIsFinal ==
  /\ [][\A e \in EventIds :
          events[e].already_resolved =>
            /\ events'[e].already_resolved
            /\ events'[e].error = events[e].error]_vars
  /\ [][\A e \in EventIds :
          events'[e].error # events[e].error =>
            \/ \E err \in ResolverErrors : CallResolver(e, err)
            \/ Fresh(e)]_vars

\* an event resolved with an error went through a second resolver call, the
\* completion of its waiter and a callback
C8_Witness ==
  \E e \in EventIds :
    /\ events[e].already_resolved
    /\ events[e].error # NoError
    /\ hist[e].rejected >= 1
    /\ Completed(e)
    /\ \E i \in DOMAIN fired : closures[fired[i]].self = e

\* C9: the event of a buffer write, read or map whose native enqueue failed
\* with code X is resolved with the error (X, description of X), never gets
\* a waiter thread, and every gocl_event_then on it schedules its callback
\* once, outside the call, which is then handed that error.
C9_FailedEnqueueResolved ==
  /\ [](\A e \in EventIds :
          FailedBuffer(e) =>
            /\ events[e].already_resolved
            /\ events[e].error =
                 [code |-> events[e].err_code,
                  message |-> get_error_code_description(events[e].err_code)]
            /\ hist[e].spawned = 0
            /\ waiter[e] = "none"
            /\ \A c \in DOMAIN closures :
                 closures[c].self = e =>
                   /\ closures[c].registered = "resolved"
                   /\ Scheduled(c) + Calls(c) = 1
                   /\ Calls(c) = 1 => closures[c].got = events[e].error)
  /\ [][\A e \in EventIds, t \in AppThreads :
          (gocl_event_then(e, t) /\ FailedBuffer(e)) =>
            fired' = fired]_vars

\* two continuations of a failed buffer operation have been handed its error
C9_Witness ==
  \E e \in EventIds :
    /\ FailedBuffer(e)
    /\ \E c, d \in DOMAIN closures :
         /\ c # d
         /\ closures[c].self = e /\ closures[d].self = e
         /\ Calls(c) = 1 /\ Calls(d) = 1
         /\ closures[c].got = events[e].error
         /\ closures[c].got.code = events[e].err_code
         /\ closures[d].got = events[e].error

\* C10: the event of a kernel run whose native enqueue failed is resolved
\* and carries the error of the failure.
C10_KernelFailureResolved ==
  \A e \in EventIds :
    FailedKernel(e) =>
      /\ events[e].already_resolved
      /\ events[e].error = gocl_error_check_opencl(events[e].err_code)

----------------------------------------------------------------------------
(* Synchronous operations (gocl-buffer.c, gocl-kernel.c, gocl-device.c) *)

\* the record of one more synchronous call
Called(op, status, blocking, ret, failure, error) ==
  [ op |-> op, status |-> status, blocking |-> blocking, ret |-> ret,
    failure |-> failure, error |-> error, waited_on |-> "none",
    seq |-> 1 - call.seq ]

\* gocl_buffer_read_sync / _write_sync / _read_all_sync: the native call is
\* made with blocking = TRUE and no cl_event, its status goes through
\* gocl_error_check_opencl_internal
BufferSync(op, err_code) ==
  /\ ~aborted
  /\ last_error' = gocl_error_check_opencl_internal(err_code)
  /\ call' = Called(op, err_code, TRUE,
                    IF last_error' # NoError THEN "FALSE" ELSE "TRUE",
                    gocl_error_check_opencl(err_code), NoError)
  /\ UNCHANGED <<eventVars, device_queue, build, contextVars, restVars, raceVars>>

gocl_buffer_read_sync(err_code) == BufferSync("gocl_buffer_read_sync", err_code)

gocl_buffer_write_sync(err_code) ==
  BufferSync("gocl_buffer_write_sync", err_code)

gocl_buffer_read_all_sync(err_code) ==
  BufferSync("gocl_buffer_read_all_sync", err_code)

\* gocl_buffer_map_sync: class->map is called with blocking = FALSE and a
\* cl_event nobody waits for; err_code is not looked at and the pointer
\* clEnqueueMapBuffer returned (NULL when it failed) is returned
gocl_buffer_map_sync(err_code) ==
  /\ ~aborted
  /\ call' = Called("gocl_buffer_map_sync", err_code,
                    err_code # "CL_SUCCESS",
                    IF err_code = "CL_SUCCESS" THEN "mapped_ptr" ELSE "NULL",
                    gocl_error_check_opencl(err_code), NoError)
  /\ UNCHANGED <<eventVars, errorVars, build, contextVars, restVars, raceVars>>

\* gocl_kernel_run_in_device_sync: the kernel is enqueued on the device's
\* default queue, the status goes to the GError ** argument through
\* gocl_error_check_opencl, the event is waited for and released.
\* created: a queue can be created; queue_error: what a failed
\* gocl_device_get_default_queue leaves in the GError ** argument
gocl_kernel_run_in_device_sync(created, queue_error, err_code) ==
  LET q == gocl_device_get_default_queue(device_queue, last_error, created)
  IN /\ ~aborted
     /\ device_queue' = q[1]
     /\ last_error' = q[2]
     /\ IF q[1] = "NULL"
          THEN /\ err_code = "CL_SUCCESS"
               /\ call' = Called("gocl_kernel_run_in_device_sync",
                                 "NOT_ENQUEUED", TRUE, "FALSE",
                                 QueueCreationError, queue_error)
          ELSE /\ queue_error = NoError
               /\ call' =
                    [Called("gocl_kernel_run_in_device_sync", err_code, TRUE,
                            IF gocl_error_check_opencl(err_code) # NoError
                              THEN "FALSE" ELSE "TRUE",
                            gocl_error_check_opencl(err_code),
                            gocl_error_check_opencl(err_code))
                     EXCEPT !.waited_on =
                       IF gocl_error_check_opencl(err_code) # NoError
                         THEN "none" ELSE "event"]
     /\ UNCHANGED <<eventVars, build, contextVars, restVars, raceVars>>

\* acquire_or_release_gl_objects followed by the wait of the _sync callers.
\* With an empty object list the helper returns TRUE before anything is
\* enqueued and the caller waits on a cl_event it never set: the call
\* returns TRUE or the process dies (waited: the wait returned)
GlSync(op, objects, created, err_code, waited) ==
  LET q == gocl_device_get_default_queue(device_queue, last_error, created)
  IN /\ ~aborted
     /\ IF objects = "NULL"
          THEN /\ err_code = "CL_SUCCESS" /\ created
               /\ aborted' = ~waited
               /\ call' = [Called(op, "NOT_ENQUEUED", TRUE,
                                  IF waited THEN "TRUE" ELSE "NULL",
                                  NoError, NoError)
                           EXCEPT !.waited_on = "UNSET"]
               /\ UNCHANGED errorVars
        ELSE IF q[1] = "NULL"
          THEN /\ err_code = "CL_SUCCESS" /\ waited
               /\ device_queue' = q[1]
               /\ last_error' = q[2]
               /\ call' = Called(op, "NOT_ENQUEUED", TRUE, "FALSE",
                                 QueueCreationError, NoError)
               /\ UNCHANGED aborted
        ELSE /\ waited
             /\ device_queue' = q[1]
             /\ last_error' = gocl_error_check_opencl_internal(err_code)
             /\ call' = [Called(op, err_code, TRUE,
                                IF last_error' # NoError THEN "FALSE"
                                                         ELSE "TRUE",
                                gocl_error_check_opencl(err_code), NoError)
                         EXCEPT !.waited_on =
                           IF last_error' # NoError THEN "none" ELSE "event"]
             /\ UNCHANGED aborted
     /\ UNCHANGED <<events, closures, sources, native, waiter, fired, hist>>
     /\ UNCHANGED <<build, contextVars, restVars, raceVars>>

gocl_device_acquire_gl_objects_sync(objects, created, err_code, waited) ==
  GlSync("gocl_device_acquire_gl_objects_sync", objects, created, err_code,
         waited)

gocl_device_release_gl_objects_sync(objects, created, err_code, waited) ==
  GlSync("gocl_device_release_gl_objects_sync", objects, created, err_code,
         waited)

----------------------------------------------------------------------------
(* Asynchronous program build (gocl-program.c) *)

\* the status codes clBuildProgram is taken to return
BuildCodes == {"CL_SUCCESS", "CL_BUILD_PROGRAM_FAILURE"}

\* a gocl_program_build that does not look at priv->building
build_pending_ignored(b) == FALSE

\* if (self->priv->building)
build_pending(b) == b.building

\* gocl_program_build: a result that fails with G_IO_ERROR_PENDING (rejected)
\* when a build is pending, else priv->building is set and build_in_thread
\* is run in a new thread; the model then follows the new build
gocl_program_build ==
  /\ ~aborted
  /\ IF build_pending(build)
       THEN build' = [build EXCEPT !.rejected = TRUE]
       ELSE build' = [BuildInit EXCEPT !.building = TRUE,
                                      !.thread = "started",
                                      !.running = build.running + 1]
  /\ UNCHANGED <<eventVars, errorVars, call, contextVars, restVars, raceVars>>

\* build_in_thread, first half: gocl_program_build_sync (self, options)
gocl_program_build_sync(err_code) ==
  /\ ~aborted
  /\ build.thread = "started"
  /\ last_error' = gocl_error_check_opencl_internal(err_code)
  /\ build' = [build EXCEPT !.status = err_code, !.thread = "built"]
  /\ UNCHANGED <<eventVars, device_queue, call, contextVars, restVars, raceVars>>

\* build_in_thread, second half: when the build failed the result takes what
\* gocl_error_get_last () returns now; priv->building is reset
build_in_thread ==
  /\ ~aborted
  /\ build.thread = "built"
  /\ build' = [build EXCEPT
                 !.res_error = IF build.status # "CL_SUCCESS"
                                 THEN gocl_error_get_last(last_error)
                                 ELSE NoError,
                 !.building = FALSE,
                 !.running = @ - 1,
                 !.thread = "done"]
  /\ UNCHANGED <<eventVars, errorVars, call, contextVars, restVars, raceVars>>

\* gocl_program_build_finish called from the completion callback:
\* ! g_simple_async_result_propagate_error (result, error)
gocl_program_build_finish ==
  /\ ~aborted
  /\ build.thread = "done"
  /\ build.finish = "none"
  /\ build' = [build EXCEPT
                 !.finish = IF build.res_error # NoError THEN "FALSE"
                                                         ELSE "TRUE",
                 !.finish_error = build.res_error]
  /\ UNCHANGED <<eventVars, errorVars, call, contextVars, restVars, raceVars>>

----------------------------------------------------------------------------
(* The last-error slot through the functions of gocl-error.c *)

\* the record of one more direct call
ErrorCalled(fn, code, in_slot, ret) ==
  [ fn |-> fn, code |-> code, in_slot |-> in_slot, ret |-> ret,
    seq |-> 1 - error_call.seq ]

\* g_set_error_literal (err, ...) where *err holds old: a GError is not set
\* over another one, GLib warns and keeps the old one
g_set_error_literal(old, error) == IF old = NoError THEN error ELSE old

\* what gocl_error_check_opencl (err_code, error) leaves in the slot; in_slot:
\* error is the address gocl_error_prepare returned, as in
\* gocl_device_get_default_queue, which hands it to g_initable_new and so to
\* gocl_queue_initable_init
check_opencl_slot(slot, err_code, in_slot) ==
  IF in_slot /\ err_code # "CL_SUCCESS"
    THEN g_set_error_literal(slot, gocl_error_check_opencl(err_code))
    ELSE slot

error_check_opencl(err_code, in_slot) ==
  /\ last_error' = check_opencl_slot(last_error, err_code, in_slot)
  /\ error_call' = ErrorCalled("gocl_error_check_opencl", err_code, in_slot,
                               gocl_error_check_opencl(err_code))
  /\ UNCHANGED <<eventVars, device_queue, syncVars, contextVars, raceVars,
                 listVars, queueVars, glVars>>

\* a gocl_error_check_opencl_internal that keeps an error it finds
check_opencl_internal_keep(slot, err_code) ==
  IF err_code # "CL_SUCCESS" THEN gocl_error_check_opencl(err_code) ELSE slot

\* gocl_error_check_opencl_internal (err_code) for the slot as given:
\* g_clear_error, then g_set_error_literal for a failure
check_opencl_internal_slot(slot, err_code) ==
  gocl_error_check_opencl_internal(err_code)

error_check_opencl_internal(err_code) ==
  /\ last_error' = check_opencl_internal_slot(last_error, err_code)
  /\ error_call' = ErrorCalled("gocl_error_check_opencl_internal", err_code,
                               TRUE, last_error')
  /\ UNCHANGED <<eventVars, device_queue, syncVars, contextVars, raceVars,
                 listVars, queueVars, glVars>>

error_prepare ==
  /\ last_error' = gocl_error_prepare
  /\ error_call' = ErrorCalled("gocl_error_prepare", "CL_SUCCESS", TRUE,
                               NoError)
  /\ UNCHANGED <<eventVars, device_queue, syncVars, contextVars, raceVars,
                 listVars, queueVars, glVars>>

\* gocl_error_free (): gocl_error_prepare ()
gocl_error_free == gocl_error_prepare

error_free ==
  /\ last_error' = gocl_error_free
  /\ error_call' = ErrorCalled("gocl_error_free", "CL_SUCCESS", TRUE, NoError)
  /\ UNCHANGED <<eventVars, device_queue, syncVars, contextVars, raceVars,
                 listVars, queueVars, glVars>>

error_get_last ==
  /\ error_call' = ErrorCalled("gocl_error_get_last", "CL_SUCCESS", FALSE,
                               gocl_error_get_last(last_error))
  /\ UNCHANGED <<eventVars, errorVars, syncVars, contextVars, raceVars,
                 listVars, queueVars, glVars>>

\* the status codes handed to the functions of gocl-error.c
SlotCodes ==
  EnqueueCodes \cup {"CL_MAP_FAILURE", "CL_BUILD_PROGRAM_FAILURE",
                     "CL_INVALID_QUEUE_PROPERTIES"}

\* the functions of gocl-error.c called one after the other, with any status
ErrorNext ==
  \/ \E x \in SlotCodes, in_slot \in BOOLEAN : error_check_opencl(x, in_slot)
  \/ \E x \in SlotCodes : error_check_opencl_internal(x)
  \/ error_prepare
  \/ error_free
  \/ error_get_last

ErrorSpec == Init /\ [][ErrorNext]_vars

\* the operations that use the last-error slot, called from any thread, with
\* an asynchronous write as the operation that reports through an event
LibNext ==
  \/ \E x \in EnqueueCodes : gocl_buffer_read_sync(x)
  \/ \E x \in EnqueueCodes : gocl_buffer_write_sync(x)
  \/ \E x \in EnqueueCodes : gocl_buffer_read_all_sync(x)
  \/ \E x \in EnqueueCodes : gocl_buffer_map_sync(x)
  \/ \E cr \in BOOLEAN, qe \in QueueErrors, x \in EnqueueCodes :
       gocl_kernel_run_in_device_sync(cr, qe, x)
  \/ \E o \in {"NULL", "objects"}, cr \in BOOLEAN, x \in EnqueueCodes,
        w \in BOOLEAN :
       gocl_device_acquire_gl_objects_sync(o, cr, x, w)
  \/ \E o \in {"NULL", "objects"}, cr \in BOOLEAN, x \in EnqueueCodes,
        w \in BOOLEAN :
       gocl_device_release_gl_objects_sync(o, cr, x, w)
  \/ \E e \in EventIds, x \in EnqueueCodes : gocl_buffer_write(e, x, "main")
  \/ gocl_program_build
  \/ \E x \in BuildCodes : gocl_program_build_sync(x)
  \/ build_in_thread
  \/ gocl_program_build_finish

LibSpec == Init /\ [][LibNext]_vars

----------------------------------------------------------------------------
(* Default contexts (gocl-context.c) *)

MaxContexts == 3
MaxContextRefs == 2

\* the status codes clCreateContextFromType is taken to return
ContextCodes == {"CL_SUCCESS", "CL_DEVICE_NOT_FOUND"}

\* gocl_context_new_sync (device_type): the slot is prepared and handed to
\* g_initable_new; a context that failed to initialize is not returned.
\* The result is <<the contexts, the pointer returned, the slot>>
gocl_context_new_sync(device_type, err_code) ==
  IF gocl_error_check_opencl(err_code) # NoError
    THEN <<contexts, 0, gocl_error_check_opencl(err_code)>>
    ELSE <<Append(contexts, [device_type |-> device_type, ref_count |-> 1,
                             finalized |-> FALSE]),
           Len(contexts) + 1, gocl_error_prepare>>

\* the body shared by gocl_context_get_default_gpu_sync and _cpu_sync for
\* the static pointer they use: a cached pointer is referenced and returned,
\* whatever it points to, else a context is created and cached
get_default_sync(fn, cached, device_type, err_code) ==
  IF cached # 0
    THEN [ contexts |-> IF contexts[cached].finalized
                          THEN contexts   \* g_object_ref of a freed object
                          ELSE [contexts EXCEPT ![cached].ref_count = @ + 1],
           cached   |-> cached,
           slot     |-> last_error,
           returned |-> [fn |-> fn, context |-> cached, created |-> FALSE,
                         finalized |-> contexts[cached].finalized] ]
    ELSE LET new == gocl_context_new_sync(device_type, err_code)
         IN [ contexts |-> new[1],
              cached   |-> new[2],
              slot     |-> new[3],
              returned |-> [fn |-> fn, context |-> new[2],
                            created |-> new[2] # 0, finalized |-> FALSE] ]

\* what a call may do: a cached context is not created again, the bounds are
\* kept, and only the reference to a freed object may end the process
DefaultCallGuard(cached, err_code, r, crash) ==
  /\ ~aborted
  /\ cached # 0 => err_code = "CL_SUCCESS"
  /\ Len(r.contexts) <= MaxContexts
  /\ \A i \in DOMAIN r.contexts : r.contexts[i].ref_count <= MaxContextRefs
  /\ crash => r.returned.finalized

gocl_context_get_default_gpu_sync(err_code, crash) ==
  LET r == get_default_sync("gocl_context_get_default_gpu_sync",
                            gocl_context_default_gpu, "GPU", err_code)
  IN /\ DefaultCallGuard(gocl_context_default_gpu, err_code, r, crash)
     /\ contexts' = r.contexts
     /\ gocl_context_default_gpu' = r.cached
     /\ last_error' = r.slot
     /\ returned' = r.returned
     /\ aborted' = crash
     /\ UNCHANGED <<events, closures, sources, native, waiter, fired, hist>>
     /\ UNCHANGED <<gocl_context_default_cpu, device_queue, syncVars, raceVars, restVars>>

gocl_context_get_default_cpu_sync(err_code, crash) ==
  LET r == get_default_sync("gocl_context_get_default_cpu_sync",
                            gocl_context_default_cpu, "CPU", err_code)
  IN /\ DefaultCallGuard(gocl_context_default_cpu, err_code, r, crash)
     /\ contexts' = r.contexts
     /\ gocl_context_default_cpu' = r.cached
     /\ last_error' = r.slot
     /\ returned' = r.returned
     /\ aborted' = crash
     /\ UNCHANGED <<events, closures, sources, native, waiter, fired, hist>>
     /\ UNCHANGED <<gocl_context_default_gpu, device_queue, syncVars, raceVars, restVars>>

\* gocl_context_finalize (self): the static pointers it leaves, as
\* <<gocl_context_default_gpu, gocl_context_default_cpu>>
gocl_context_finalize(self) ==
  IF self = gocl_context_default_cpu
    THEN <<gocl_context_default_gpu, 0>>
  ELSE IF self = gocl_context_default_gpu
    THEN <<gocl_context_default_gpu, 0>>
  ELSE <<gocl_context_default_gpu, gocl_context_default_cpu>>

\* g_object_unref (context) by an owner of one of its references
context_unref(self) ==
  /\ ~aborted
  /\ self \in DOMAIN contexts
  /\ contexts[self].ref_count > 0
  /\ contexts' = [contexts EXCEPT ![self].ref_count = @ - 1,
                                  ![self].finalized = contexts[self].ref_count = 1]
  /\ IF contexts[self].ref_count = 1
       THEN /\ gocl_context_default_gpu' = gocl_context_finalize(self)[1]
            /\ gocl_context_default_cpu' = gocl_context_finalize(self)[2]
       ELSE UNCHANGED <<gocl_context_default_gpu, gocl_context_default_cpu>>
  /\ UNCHANGED <<eventVars, errorVars, syncVars, returned, raceVars, restVars>>

ContextNext ==
  \/ \E x \in ContextCodes, crash \in BOOLEAN :
       gocl_context_get_default_gpu_sync(x, crash)
  \/ \E x \in ContextCodes, crash \in BOOLEAN :
       gocl_context_get_default_cpu_sync(x, crash)
  \/ \E i \in 1..MaxContexts : context_unref(i)

ContextSpec == Init /\ [][ContextNext]_vars

----------------------------------------------------------------------------
(* gocl_event_then called from two threads at once (gocl-event.c) *)

\* gocl_event_then takes no lock: its reads and writes of the event's fields
\* interleave with those of another caller and of event_completed.  The
\* steps below are one call's accesses, in program order.

\* the closure is allocated, two references are taken (atomic in GObject) and
\* already_resolved and waiting_event are read: a resolved event gets its
\* idle source, a waiting one nothing, and a caller that saw neither flag
\* goes on to start the wait
then_enter(e, thread) ==
  LET ev == events[e]
      c  == Len(closures) + 1
      held == g_object_ref(g_object_ref(ev))
  IN /\ ~aborted
     /\ Live(e)
     /\ pc[thread].at = "out"
     /\ c <= MaxClosures
     /\ closures' = Append(closures, NewClosure(e, thread, Branch(ev)))
     /\ events' = [events EXCEPT ![e] = held]
     /\ IF ev.already_resolved
          THEN /\ sources' = timeout_add(sources, closures'[c].context, thread,
                                         G_PRIORITY_DEFAULT,
                                         "notify_event_completed_in_caller_context", c)
               /\ UNCHANGED <<aborted, pc>>
        ELSE IF ~ev.waiting_event
          THEN /\ aborted' = (ev.event = "NULL")
               /\ pc' = [pc EXCEPT ![thread] =
                           IF ev.event = "NULL" THEN @
                           ELSE [at |-> "checked", self |-> e, closure |-> c,
                                 list |-> <<>>]]
               /\ UNCHANGED sources
        ELSE UNCHANGED <<sources, aborted, pc>>
     /\ UNCHANGED <<native, waiter, fired, hist>>
     /\ UNCHANGED <<errorVars, syncVars, contextVars, restVars>>

\* self->priv->waiting_event = TRUE
then_set_waiting(thread) ==
  /\ ~aborted
  /\ pc[thread].at = "checked"
  /\ events' = [events EXCEPT ![pc[thread].self].waiting_event = TRUE]
  /\ pc' = [pc EXCEPT ![thread].at = "flagged"]
  /\ UNCHANGED <<closures, sources, native, waiter, fired, hist, aborted>>
  /\ UNCHANGED <<errorVars, syncVars, contextVars, restVars>>

\* g_list_append (self->priv->closure_list, closure) reads the list ...
then_read_list(thread) ==
  /\ ~aborted
  /\ pc[thread].at = "flagged"
  /\ pc' = [pc EXCEPT ![thread].at = "read",
                      ![thread].list = events[pc[thread].self].closure_list]
  /\ UNCHANGED <<eventVars, errorVars, syncVars, contextVars, restVars>>

\* ... and the list it read, with the closure at its end, is stored
then_write_list(thread) ==
  /\ ~aborted
  /\ pc[thread].at = "read"
  /\ events' = [events EXCEPT ![pc[thread].self].closure_list =
                  Append(pc[thread].list, pc[thread].closure)]
  /\ pc' = [pc EXCEPT ![thread].at = "appended", ![thread].list = <<>>]
  /\ UNCHANGED <<closures, sources, native, waiter, fired, hist, aborted>>
  /\ UNCHANGED <<errorVars, syncVars, contextVars, restVars>>

\* self->priv->thread = g_thread_new ("gocl-event-thread", ...)
then_spawn(thread) ==
  /\ ~aborted
  /\ pc[thread].at = "appended"
  /\ events' = [events EXCEPT ![pc[thread].self].thread = "gocl-event-thread"]
  /\ waiter' = [waiter EXCEPT ![pc[thread].self] = "blocked"]
  /\ hist' = [hist EXCEPT ![pc[thread].self].spawned = @ + 1]
  /\ pc' = [pc EXCEPT ![thread] = PcInit]
  /\ UNCHANGED <<closures, sources, native, fired, aborted>>
  /\ UNCHANGED <<errorVars, syncVars, contextVars, restVars>>

RaceNext ==
  \/ \E e \in EventIds, x \in EnqueueCodes, t \in AppThreads :
       gocl_buffer_write(e, x, t)
  \/ \E e \in EventIds, t \in AppThreads : then_enter(e, t)
  \/ \E t \in AppThreads : then_set_waiting(t)
  \/ \E t \in AppThreads : then_read_list(t)
  \/ \E t \in AppThreads : then_write_list(t)
  \/ \E t \in AppThreads : then_spawn(t)
  \/ \E e \in EventIds : NativeComplete(e)
  \/ \E e \in EventIds : wait_event_thread_func(e)
  \/ \E ctx \in Contexts : event_completed(ctx)
  \/ \E ctx \in Contexts : notify_event_completed_in_caller_context(ctx)
  \/ \E ctx \in Contexts : unref_in_idle(ctx)

RaceSpec == Init /\ [][RaceNext]_vars

----------------------------------------------------------------------------
(* C11 -- C20 *)

\* a pending event returned by a successful gocl_buffer_write
PendingWrite(e) ==
  events[e].origin = "gocl_buffer_write" /\ events[e].err_code = "CL_SUCCESS"

\* C11: round trip of a successful asynchronous write: a continuation
\* registered before the native handle signals is queued in the event and not
\* run while the handle has not signalled; its callback runs at most once and
\* is handed no error.
C11_WriteRoundTrip ==
  \A c \in DOMAIN closures :
    PendingWrite(closures[c].self) =>
      /\ native[closures[c].self] = "queued" => (Listed(c) = 1 /\ Calls(c) = 0)
      /\ Calls(c) <= 1
      /\ Calls(c) = 1 => closures[c].got = NoError

\* the gocl_event_then calls made on an event
ThenCalls(e) == {c \in DOMAIN closures : closures[c].self = e}

\* the idle unref the creator of the event asked for has run
IdleUnrefDone(e) ==
  /\ events[e].unref_src_id # 0
  /\ \A ctx \in Contexts : \A i \in DOMAIN sources[ctx] :
       ~(sources[ctx][i].fn = "unref_in_idle" /\ sources[ctx][i].data = e)

\* C12: an event nobody but its creator's idle unref and its continuations
\* refers to is not destroyed before the callbacks registered on it have run,
\* whether the idle unref or the callback dispatch runs first; after one
\* gocl_event_then call, it is destroyed once both the callback and the idle
\* unref have run.
C12_AliveUntilCallback ==
  \A e \in EventIds :
    /\ events[e].finalized => \A c \in ThenCalls(e) : Calls(c) = 1
    /\ ( /\ Cardinality(ThenCalls(e)) = 1
         /\ \A c \in ThenCalls(e) : Calls(c) = 1
         /\ IdleUnrefDone(e) )
       => events[e].finalized

\* a pending event was destroyed after its only continuation was called back
\* and its idle unref ran
C12_Witness ==
  \E e \in EventIds :
    /\ events[e].finalized
    /\ IdleUnrefDone(e)
    /\ Cardinality(ThenCalls(e)) = 1
    /\ \A c \in ThenCalls(e) : closures[c].registered = "spawn" /\ Calls(c) = 1

WaiterStep == \E e \in EventIds : wait_event_thread_func(e)

\* C13: no callback runs on the waiter thread: a step of the waiter invokes
\* no callback and changes nothing but its own position and the sources of
\* the global default context, to which it appends one event_completed
\* source; every callback invoked ran on the thread that iterates the main
\* context of its closure.
C13_NoCallbackOnWaiter ==
  /\ [][WaiterStep =>
          /\ fired' = fired
          /\ closures' = closures
          /\ events' = events
          /\ \E e \in EventIds :
               sources' = [sources EXCEPT !["global"] =
                             Append(@, [fn |-> "event_completed", data |-> e,
                                        priority |-> G_PRIORITY_DEFAULT])]]_vars
  /\ [](\A i \in DOMAIN fired :
          /\ closures[fired[i]].ran_on \in AppThreads
          /\ closures[fired[i]].ran_on # "gocl-event-thread"
          /\ closures[fired[i]].ran_on =
               LoopThread(IF closures[fired[i]].context = "NULL"
                            THEN "global" ELSE closures[fired[i]].context))

\* a continuation that waited for the waiter thread was called back on the
\* thread T, which iterates the context it was registered from
C13_Witness ==
  \E c \in DOMAIN closures :
    /\ closures[c].registered = "spawn"
    /\ waiter[closures[c].self] = "exited"
    /\ Calls(c) = 1
    /\ closures[c].ran_on = "T"

\* C14: the native handle of an event is released once, by the finalization
\* of the event and by nothing else, and the event is not finalized while its
\* waiter thread is blocked on the handle, while its completion is still to
\* be dispatched or while one of its continuations is listed or scheduled.
C14_HandleReleasedOnce ==
  \A e \in EventIds :
    /\ events[e].released <= 1
    /\ events[e].released = 1 <=>
         (events[e].finalized /\ events[e].event # "NULL")
    /\ events[e].finalized =>
         /\ waiter[e] # "blocked"
         /\ waiter[e] = "exited" => Completed(e)
         /\ \A c \in ThenCalls(e) : Listed(c) = 0 /\ Scheduled(c) = 0

\* an event whose waiter thread waited on the handle was finalized and the
\* handle released
C14_Witness ==
  \E e \in EventIds :
    /\ events[e].finalized
    /\ events[e].event = "H"
    /\ events[e].released = 1
    /\ waiter[e] = "exited"

SyncOps ==
  { "gocl_buffer_read_sync", "gocl_buffer_write_sync",
    "gocl_buffer_read_all_sync", "gocl_buffer_map_sync",
    "gocl_kernel_run_in_device_sync", "gocl_device_acquire_gl_objects_sync",
    "gocl_device_release_gl_objects_sync" }

\* a step of one of the synchronous operations
SyncStep == call' # call

\* C15: a synchronous variant returns only after the native command it
\* submitted has completed, creates no GoclEvent, spawns no waiter thread and
\* reports failure (FALSE, or NULL for the map) whenever the native status is
\* not CL_SUCCESS.
C15_SyncVariants ==
  /\ [](call.op \in SyncOps =>
          /\ call.blocking
          /\ call.status \notin {"CL_SUCCESS", "NOT_ENQUEUED"} =>
               call.ret \in {"FALSE", "NULL"})
  /\ [][SyncStep => (events' = events /\ hist' = hist /\ waiter' = waiter)]_vars

\* the static pointer of a device type
DefaultOf(device_type) ==
  IF device_type = "GPU" THEN gocl_context_default_gpu
                         ELSE gocl_context_default_cpu

\* C16: the default-context calls never return or keep a pointer to a
\* finalized context -- the destruction of the cached context clears its
\* static pointer -- and a context stays the cached one of its device type
\* for as long as it lives, so that every later call returns it.
C16_DefaultContextCache ==
  /\ ~returned.finalized
  /\ \A t \in {"GPU", "CPU"} :
       DefaultOf(t) # 0 => ~contexts[DefaultOf(t)].finalized
  /\ \A i \in DOMAIN contexts :
       ~contexts[i].finalized => DefaultOf(contexts[i].device_type) = i

\* C17: gocl_program_build_finish of a build whose native build failed
\* returns FALSE with the error of that build, whatever other threads did
\* with the last-error slot while the build thread ran.
C17_BuildErrorReported ==
  (build.finish # "none" /\ build.status # "CL_SUCCESS") =>
    /\ build.finish = "FALSE"
    /\ build.finish_error = gocl_error_check_opencl(build.status)

\* a step that constructs the event of an asynchronous operation
EventStep(e) == events[e].origin = "none" /\ events'[e].origin # "none"

\* C18: after every operation gocl_error_get_last returns the error of that
\* operation when it failed and nothing when it succeeded, for operations
\* that report through the slot, through a GError ** argument or through the
\* event they return.
C18_LastErrorIsLatest ==
  [][ /\ SyncStep => gocl_error_get_last(last_error') = call'.failure
      /\ \A e \in EventIds :
           EventStep(e) => gocl_error_get_last(last_error') = events'[e].error
    ]_vars

\* the closure is that of a gocl_event_then call that has not returned
InCall(c) == \E t \in AppThreads : pc[t].at # "out" /\ pc[t].closure = c

\* C19: gocl_event_then calls racing from two threads on one pending event
\* spawn one waiter thread between them, and no continuation a returned call
\* put in the event's list is lost: it is listed, scheduled or was called.
C19_RacingThen ==
  /\ \A e \in EventIds : hist[e].spawned <= 1
  /\ \A c \in DOMAIN closures :
       (closures[c].registered = "spawn" /\ ~InCall(c) /\ ~aborted) =>
         Listed(c) + Scheduled(c) + Calls(c) >= 1

\* the completion of an event is attached to a context as an idle source
CompletionIn(ctx, e) ==
  \E i \in DOMAIN sources[ctx] :
    sources[ctx][i].fn = "event_completed" /\ sources[ctx][i].data = e

\* C20: the completion of a wait started by a registration from the thread
\* whose thread-default context is X is marshalled to X: once the handle has
\* signalled and the waiter thread has returned, the callback has run, or its
\* idle source or the event's completion is attached to X -- iterating X
\* alone delivers it, no other context has to be iterated.
C20_DeliveredByOwnContext ==
  \A c \in DOMAIN closures :
    ( /\ closures[c].context = "X"
      /\ closures[c].registered = "spawn"
      /\ native[closures[c].self] = "complete"
      /\ waiter[closures[c].self] = "exited" )
    => \/ Calls(c) = 1
       \/ ScheduledIn("X", c) = 1
       \/ CompletionIn("X", closures[c].self)


----------------------------------------------------------------------------
(* gocl_event_list_to_array (gocl-event.c) *)

MaxListLen == 3

\* the events a wait list may hold, by the two fields the conversion could
\* look at: pending or completed events with a native handle, error-resolved
\* events and application events without one
ListedEvents ==
  [event : {"NULL", "cl_event_1", "cl_event_2"}, already_resolved : BOOLEAN]

EventLists == UNION {[1..n -> ListedEvents] : n \in 0..MaxListLen}

ListInit == BaseInit /\ event_list \in EventLists

g_list_length(list) == Len(list)

gocl_event_get_event(ev) == ev.event

\* a conversion that leaves out the events without a native handle
RECURSIVE fill_array_skip_null(_, _)
fill_array_skip_null(node, arr) ==
  IF node = <<>> THEN arr
  ELSE fill_array_skip_null(Tail(node),
         IF Head(node).event = "NULL" THEN arr
         ELSE Append(arr, gocl_event_get_event(Head(node))))

\* the while loop of gocl_event_list_to_array: event_arr[i] is the handle of
\* the i-th node
RECURSIVE fill_array(_, _)
fill_array(node, arr) ==
  IF node = <<>> THEN arr
  ELSE fill_array(Tail(node), Append(arr, gocl_event_get_event(Head(node))))

\* gocl_event_list_to_array (event_list, len); want_len: len is not NULL
gocl_event_list_to_array(list, want_len) ==
  LET _len == g_list_length(list) IN
    [ called    |-> TRUE,
      allocated |-> _len # 0,
      arr       |-> IF _len = 0 THEN <<>> ELSE fill_array(list, <<>>),
      len_set   |-> want_len,
      len       |-> IF want_len THEN _len ELSE 0 ]

list_to_array(want_len) ==
  /\ ~event_arr.called
  /\ event_arr' = gocl_event_list_to_array(event_list, want_len)
  /\ UNCHANGED <<event_list, eventVars, errorVars, syncVars, contextVars,
                 raceVars, queueVars, glVars, slotVars>>

ListNext == \E want_len \in BOOLEAN : list_to_array(want_len)

ListSpec == ListInit /\ [][ListNext]_vars

\* C21: gocl_event_list_to_array returns an array holding the native handle
\* of every listed event, in list order and resolved or error events
\* included, reports the length of the list where a length is asked for, and
\* returns no array for the empty list
C21_ListToArray ==
  event_arr.called =>
    /\ event_arr.allocated <=> event_list # <<>>
    /\ Len(event_arr.arr) = Len(event_list)
    /\ \A i \in DOMAIN event_list : event_arr.arr[i] = event_list[i].event
    /\ event_arr.len_set => event_arr.len = Len(event_list)

\* a list of several events, one of them resolved without a native handle,
\* was converted and its length reported
C21_Witness ==
  /\ event_arr.called /\ event_arr.len_set
  /\ Len(event_list) >= 2
  /\ \E i \in DOMAIN event_list :
       event_list[i].already_resolved /\ event_list[i].event = "NULL"
  /\ \E i \in DOMAIN event_list : event_list[i].event # "NULL"


----------------------------------------------------------------------------
(* Queues and the references to them (gocl-queue.c, gocl-device.c,
   gocl-event.c) *)

MaxRefs == 3

\* gocl_device_dispose apart from its unref of priv->queue, and the
\* finalization that follows
gocl_device_dispose(d) == [d EXCEPT !.finalized = TRUE]

\* g_object_unref of the device
device_unref(d) ==
  IF d.ref_count = 1 THEN gocl_device_dispose([d EXCEPT !.ref_count = 0])
  ELSE [d EXCEPT !.ref_count = @ - 1]

\* gocl_queue_dispose and gocl_queue_finalize, run by the g_object_unref that
\* drops the last reference: priv->device is unreferenced and the command
\* queue released.  The result is <<the queue, the device>>
gocl_queue_finalize(q, d) ==
  <<[q EXCEPT !.finalized = TRUE,
              !.device = FALSE,
              !.released = IF q.queue # "NULL" THEN @ + 1 ELSE @],
    IF q.device THEN device_unref(d) ELSE d>>

\* g_object_unref of the queue
queue_unref(q, d) ==
  IF q.ref_count = 1 THEN gocl_queue_finalize([q EXCEPT !.ref_count = 0], d)
  ELSE <<[q EXCEPT !.ref_count = @ - 1], d>>

\* set_property of an event that took the pointer without a reference
g_value_get_object(q) == q

\* set_property (PROP_QUEUE) of gocl-event.c and (PROP_DEVICE) of
\* gocl-queue.c: g_value_dup_object takes a reference
g_value_dup_object(q) == [q EXCEPT !.ref_count = @ + 1]

\* g_initable_new (GOCL_TYPE_QUEUE, NULL, error, "device", self, NULL):
\* construction, then gocl_queue_initable_init, after whose failure
\* g_initable_new drops the object.  The result is <<the queue, the device>>
queue_initable_new(d, created) ==
  LET q == [QueueInit EXCEPT !.created = TRUE, !.device = TRUE,
                             !.ref_count = 1,
                             !.queue = IF created THEN "Q" ELSE "NULL"]
      dd == g_value_dup_object(d)
  IN IF created THEN <<q, dd>> ELSE queue_unref(q, dd)

\* no queue object is alive: the model follows one queue at a time, the
\* next object starting from gocl_queue_init again
NoQueue == ~queue_obj.created \/ queue_obj.finalized

QueueAlive == queue_obj.created /\ ~queue_obj.finalized

\* gocl_device_get_default_queue (device) creating the default queue
queue_get_default(created) ==
  LET q == gocl_device_get_default_queue(device_queue, last_error, created)
      o == queue_initable_new(device_obj, created)
  IN /\ ~device_obj.finalized /\ device_obj.app_refs > 0
     /\ device_queue = "NULL" /\ NoQueue
     /\ device_queue' = q[1]
     /\ last_error' = q[2]
     /\ queue_obj' = o[1]
     /\ device_obj' = o[2]
     /\ UNCHANGED <<eventVars, event_queue, syncVars, contextVars, raceVars,
                    listVars, glVars, slotVars>>

\* the application constructs a queue of its own for the device and keeps
\* the reference g_initable_new returns
queue_new_by_app(created) ==
  LET o == queue_initable_new(device_obj, created) IN
  /\ ~device_obj.finalized /\ device_obj.app_refs > 0
  /\ NoQueue
  /\ queue_obj' = [o[1] EXCEPT !.app_refs = IF created THEN 1 ELSE 0]
  /\ device_obj' = o[2]
  /\ last_error' = IF created THEN last_error ELSE QueueCreationError
  /\ UNCHANGED <<eventVars, event_queue, device_queue, syncVars, contextVars,
                 raceVars, listVars, glVars, slotVars>>

\* gocl_buffer_read (buffer, queue, ...) on the thread "main": the event is
\* constructed with the queue and its release scheduled
queue_buffer_read(e, err_code) ==
  LET ev == buffer_event("gocl_buffer_read", err_code)
      r  == gocl_event_idle_unref(ev, sources, e, "main")
  IN /\ ~aborted /\ Fresh(e)
     /\ QueueAlive
     /\ device_queue # "NULL" \/ queue_obj.app_refs > 0
     /\ events' = [events EXCEPT ![e] = r[1]]
     /\ sources' = r[2]
     /\ event_queue' = [event_queue EXCEPT ![e] = "queue"]
     /\ queue_obj' = g_value_dup_object(queue_obj)
     /\ UNCHANGED <<closures, native, waiter, fired, hist, aborted, device_obj,
                    errorVars, syncVars, contextVars, raceVars, listVars,
                    glVars, slotVars>>

\* gocl_event_dispose, run when the last reference to the event goes: the
\* queue is unreferenced and priv->queue cleared
EventDisposed(e, ev) ==
  LET o == IF ev.finalized /\ event_queue[e] # "NULL"
             THEN queue_unref(queue_obj, device_obj)
             ELSE <<queue_obj, device_obj>>
  IN /\ event_queue' = [event_queue EXCEPT ![e] = IF ev.finalized THEN "NULL"
                                                                  ELSE @]
     /\ queue_obj' = o[1]
     /\ device_obj' = o[2]

\* unref_in_idle dispatched by the main loop: the creator's reference goes
queue_unref_in_idle(ctx) ==
  LET e  == sources[ctx][NextSource(sources[ctx])].data
      ev == g_object_unref(events[e])
  IN /\ Dispatches(ctx, "unref_in_idle")
     /\ events' = [events EXCEPT ![e] = ev]
     /\ sources' = Dequeued(ctx)
     /\ EventDisposed(e, ev)
     /\ UNCHANGED <<closures, native, waiter, fired, hist, aborted, errorVars,
                    syncVars, contextVars, raceVars, listVars, glVars,
                    slotVars>>

\* the references of others to the event: the two g_object_ref of
\* gocl_event_then for a closure, or one of the application
event_ref(e) ==
  /\ Live(e) /\ events[e].ref_count < MaxRefs
  /\ events' = [events EXCEPT ![e] = g_object_ref(@)]
  /\ UNCHANGED <<closures, sources, native, waiter, fired, hist, aborted,
                 errorVars, syncVars, contextVars, raceVars, restVars>>

\* ... and their release (free_closure, notify_event_completed_in_caller_
\* context, or the application); the creator's reference is left to
\* unref_in_idle
event_unref(e) ==
  LET ev == g_object_unref(events[e])
      creator == IF \E c \in Contexts : \E i \in DOMAIN sources[c] :
                      sources[c][i].fn = "unref_in_idle" THEN 1 ELSE 0
  IN /\ Live(e) /\ events[e].ref_count > creator
     /\ events' = [events EXCEPT ![e] = ev]
     /\ EventDisposed(e, ev)
     /\ UNCHANGED <<closures, sources, native, waiter, fired, hist, aborted,
                    errorVars, syncVars, contextVars, raceVars, listVars,
                    glVars, slotVars>>

\* the application takes a reference to the queue it was handed ...
app_queue_ref ==
  /\ QueueAlive /\ queue_obj.ref_count < MaxRefs
  /\ device_queue # "NULL" \/ queue_obj.app_refs > 0
  /\ queue_obj' = [g_value_dup_object(queue_obj) EXCEPT !.app_refs = @ + 1]
  /\ UNCHANGED <<eventVars, errorVars, syncVars, contextVars, raceVars,
                 listVars, glVars, slotVars, device_obj, event_queue>>

\* ... and drops one it holds
app_queue_unref ==
  LET o == queue_unref([queue_obj EXCEPT !.app_refs = @ - 1], device_obj) IN
  /\ QueueAlive /\ queue_obj.app_refs > 0
  /\ queue_obj' = o[1]
  /\ device_obj' = o[2]
  /\ UNCHANGED <<eventVars, errorVars, syncVars, contextVars, raceVars,
                 listVars, glVars, slotVars, event_queue>>

\* the application drops its reference to the device; with the last
\* reference gocl_device_dispose unreferences the default queue
app_device_unref ==
  LET d == device_unref([device_obj EXCEPT !.app_refs = @ - 1])
      o == IF d.finalized /\ device_queue # "NULL"
             THEN queue_unref(queue_obj, d) ELSE <<queue_obj, d>>
  IN /\ device_obj.app_refs > 0
     /\ queue_obj' = o[1]
     /\ device_obj' = o[2]
     /\ device_queue' = IF d.finalized THEN "NULL" ELSE device_queue
     /\ UNCHANGED <<eventVars, last_error, syncVars, contextVars, raceVars,
                    listVars, glVars, slotVars, event_queue>>

QueueNext ==
  \/ \E created \in BOOLEAN : queue_get_default(created)
  \/ \E created \in BOOLEAN : queue_new_by_app(created)
  \/ \E e \in EventIds, x \in EnqueueCodes : queue_buffer_read(e, x)
  \/ \E ctx \in Contexts : queue_unref_in_idle(ctx)
  \/ \E e \in EventIds : event_ref(e)
  \/ \E e \in EventIds : event_unref(e)
  \/ app_queue_ref
  \/ app_queue_unref
  \/ app_device_unref

QueueSpec == Init /\ [][QueueNext]_vars

\* the events whose priv->queue is the queue
QueueEvents == {e \in EventIds : event_queue[e] = "queue"}

\* C22: the command queue of a GoclQueue is released at most once and only
\* by its finalization; a queue is not finalized while an event that is not
\* disposed or the device points at it, each of them holding a counted
\* reference; and gocl_event_get_queue returns the queue the event was
\* constructed with until the event is disposed
C22_QueueOutlivesEvents ==
  /\ [](queue_obj.released <= 1)
  /\ [][queue_obj'.released > queue_obj.released
          => queue_obj'.finalized /\ ~queue_obj.finalized]_vars
  /\ [](queue_obj.finalized => QueueEvents = {} /\ device_queue = "NULL")
  /\ [](QueueAlive =>
          queue_obj.ref_count >= Cardinality(QueueEvents)
                                 + (IF device_queue # "NULL" THEN 1 ELSE 0))
  /\ [](\A e \in QueueEvents : Live(e))
  /\ [][\A e \in EventIds :
          Live(e) /\ ~events'[e].finalized
            => event_queue'[e] = event_queue[e]]_vars

\* a queue of the application was finalized, and its command queue released,
\* after the application had dropped its reference and the event queued on
\* it was disposed
C22_Witness ==
  /\ queue_obj.finalized /\ queue_obj.released = 1
  /\ \E e \in EventIds :
       events[e].finalized /\ events[e].origin = "gocl_buffer_read"


----------------------------------------------------------------------------
(* Asynchronous acquire / release of GL objects (gocl-device.c) *)

GlOps == {"gocl_device_acquire_gl_objects", "gocl_device_release_gl_objects"}

\* what a cl_event local that was never written may hold
UnsetHandles == {"NULL", "GARBAGE"}

\* gocl_device_acquire_gl_objects / _release_gl_objects up to the return of
\* acquire_or_release_gl_objects: the caller's gocl_device_get_default_queue,
\* then the helper, which returns TRUE at once for an empty object list and
\* otherwise looks the queue up again and enqueues.  created, created2:
\* clCreateCommandQueue succeeds in the first, the second lookup
gl_enqueue(op, objects, created, created2, err_code) ==
  LET q1 == gocl_device_get_default_queue(device_queue, last_error, created)
      q2 == gocl_device_get_default_queue(q1[1], q1[2], created2)
      g  == [GlInit EXCEPT !.at = "enqueued", !.op = op, !.objects = objects,
                           !.queue = q1[1]]
  IN /\ ~aborted
     /\ gl.at = "out"
     /\ \E e \in EventIds : Fresh(e)
     /\ created => created2
     /\ IF objects = "NULL"
          THEN /\ err_code = "CL_SUCCESS" /\ created2
               /\ device_queue' = q1[1]
               /\ last_error' = q1[2]
               /\ gl' = g
        ELSE IF q2[1] = "NULL"
          THEN /\ err_code = "CL_SUCCESS"
               /\ device_queue' = q2[1]
               /\ last_error' = q2[2]
               /\ gl' = [g EXCEPT !.ret = FALSE]
        ELSE /\ device_queue' = q2[1]
             /\ last_error' = gocl_error_check_opencl_internal(err_code)
             /\ gl' = IF last_error' # NoError
                        THEN [g EXCEPT !.status = err_code, !.ret = FALSE]
                        ELSE [g EXCEPT !.status = err_code, !.event = "H"]
     /\ UNCHANGED <<eventVars, syncVars, contextVars, raceVars, listVars,
                    queueVars, slotVars>>

\* the event the rest of the function constructs: after a FALSE from the
\* helper it is resolved with what gocl_error_get_last () returns now, after
\* a TRUE it takes the caller's cl_event (unset: what the local held)
gl_event_of(g, slot, unset) ==
  IF ~g.ret
    THEN gocl_event_resolve(
           gocl_event_steal_resolver_func(g_object_new(g.op, g.status, "NULL")),
           gocl_error_get_last(slot))
    ELSE gocl_event_steal_resolver_func(
           g_object_new(g.op, g.status,
                        IF g.event = "UNSET" THEN unset ELSE g.event))

\* ... and its return: gocl_event_idle_unref is not called
gl_event(e, unset) ==
  LET ev == gl_event_of(gl, last_error, unset) IN
  /\ ~aborted
  /\ gl.at = "enqueued"
  /\ Fresh(e)
  /\ gl.event = "UNSET" \/ unset = "NULL"
  /\ events' = [events EXCEPT ![e] = ev]
  /\ native' = [native EXCEPT ![e] = IF ev.event = "H" THEN "queued"
                                                        ELSE "none"]
  /\ hist' = [hist EXCEPT ![e].steals = <<TRUE>>]
  /\ gl' = [gl EXCEPT !.at = "out"]
  /\ UNCHANGED <<closures, sources, waiter, fired, aborted, errorVars,
                 syncVars, contextVars, raceVars, listVars, queueVars,
                 slotVars>>

\* the GL operations of one thread, a program build of another, and
\* continuations registered on the returned event
GlNext ==
  \/ \E op \in GlOps, o \in {"NULL", "objects"}, cr \in BOOLEAN,
        cr2 \in BOOLEAN, x \in EnqueueCodes :
       gl_enqueue(op, o, cr, cr2, x)
  \/ \E e \in EventIds, u \in UnsetHandles : gl_event(e, u)
  \/ \E e \in EventIds, t \in AppThreads : gocl_event_then(e, t)
  \/ gocl_program_build
  \/ \E x \in BuildCodes : gocl_program_build_sync(x)
  \/ build_in_thread
  \/ gocl_program_build_finish

GlSpec == Init /\ [][GlNext]_vars

----------------------------------------------------------------------------
(* The callback of examples/hello-world.c *)

\* g_error_free (error) on the error an event holds
g_error_free(ev) ==
  [ev EXCEPT !.error_freed = IF ev.error # NoError THEN @ + 1 ELSE @]

\* notify_event_completed_in_caller_context dispatched by an iteration of
\* ctx for a closure whose callback is on_read_complete, which frees the
\* error it is handed when that is not NULL
on_read_complete(ctx) ==
  LET c  == sources[ctx][NextSource(sources[ctx])].data
      e  == closures[c].self
      ev == g_object_unref(g_object_unref(g_error_free(events[e])))
  IN /\ Dispatches(ctx, "notify_event_completed_in_caller_context")
     /\ fired' = Append(fired, c)
     /\ events' = [events EXCEPT ![e] = ev]
     /\ closures' = FreeListed([closures EXCEPT ![c].got = events[e].error,
                                                ![c].got_freed =
                                                  /\ events[e].error # NoError
                                                  /\ events[e].error_freed > 0,
                                                ![c].ran_on = LoopThread(ctx),
                                                ![c].freed = TRUE],
                               events[e], ev)
     /\ sources' = Dequeued(ctx)
     /\ UNCHANGED <<native, waiter, hist, aborted>>
     /\ UNCHANGED <<errorVars, syncVars, contextVars, restVars, raceVars>>

\* a read whose completion is handed to on_read_complete or to callbacks
\* that leave the error alone
ExampleNext ==
  \/ \E e \in EventIds, x \in EnqueueCodes, t \in AppThreads :
       gocl_buffer_read(e, x, t)
  \/ \E e \in EventIds, t \in AppThreads : gocl_event_then(e, t)
  \/ \E e \in EventIds : NativeComplete(e)
  \/ \E e \in EventIds : wait_event_thread_func(e)
  \/ \E ctx \in Contexts : event_completed(ctx)
  \/ \E ctx \in Contexts : notify_event_completed_in_caller_context(ctx)
  \/ \E ctx \in Contexts : on_read_complete(ctx)
  \/ \E ctx \in Contexts : unref_in_idle(ctx)

ExampleSpec == Init /\ [][ExampleNext]_vars

----------------------------------------------------------------------------
(* C21 -- C30 *)

\* a direct call of the function of gocl-error.c
ErrorStep(fn) == error_call'.seq # error_call.seq /\ error_call'.fn = fn

\* what the functions other than gocl_error_check_opencl do to the slot
SlotWriters ==
  [][ /\ ErrorStep("gocl_error_check_opencl_internal") =>
           /\ last_error' = NoError <=> error_call'.code = "CL_SUCCESS"
           /\ error_call'.code # "CL_SUCCESS" =>
                last_error' =
                  [code    |-> error_call'.code,
                   message |-> get_error_code_description(error_call'.code)]
      /\ ErrorStep("gocl_error_prepare") => last_error' = NoError
      /\ ErrorStep("gocl_error_free") => last_error' = NoError
      /\ ErrorStep("gocl_error_get_last") =>
           last_error' = last_error /\ error_call'.ret = last_error
    ]_vars

\* C23 as stated: the slot is empty after gocl_error_check_opencl_internal
\* of a success and holds the error of the code and its description after
\* any other code, gocl_error_prepare and gocl_error_free empty it, and
\* gocl_error_get_last and gocl_error_check_opencl leave it as it is
C23_SlotUnchangedByCheck ==
  /\ SlotWriters
  /\ [][ErrorStep("gocl_error_check_opencl") => last_error' = last_error]_vars

\* C23: ... and gocl_error_check_opencl leaves the slot as it is unless the
\* GError ** it is handed is the address of the slot, which
\* gocl_error_prepare returns: then a failure code is stored in the slot when
\* the slot is empty
C23_LastErrorSlot ==
  /\ SlotWriters
  /\ [][ErrorStep("gocl_error_check_opencl") =>
          /\ ~error_call'.in_slot => last_error' = last_error
          /\ error_call'.in_slot /\ last_error = NoError =>
               last_error' = error_call'.ret
          /\ error_call'.code = "CL_SUCCESS" => last_error' = last_error]_vars

\* gocl_error_check_opencl was handed the address of the emptied slot with
\* the status of a failed clCreateCommandQueue, as in
\* gocl_device_get_default_queue, and the slot holds that error
C23_Witness ==
  /\ error_call.fn = "gocl_error_check_opencl"
  /\ error_call.in_slot
  /\ error_call.code = "CL_INVALID_QUEUE_PROPERTIES"
  /\ last_error = QueueCreationError


GlSyncOps ==
  {"gocl_device_acquire_gl_objects_sync", "gocl_device_release_gl_objects_sync"}

\* C30: gocl_device_acquire_gl_objects_sync and _release_gl_objects_sync hand
\* a cl_event to clWaitForEvents and clReleaseEvent only when a native
\* enqueue produced it, and with an empty object list, where nothing is
\* enqueued, they return TRUE without waiting on or releasing anything
C30_GlSyncWaitsOnEnqueued ==
  call.op \in GlSyncOps =>
    /\ call.waited_on \in {"none", "event"}
    /\ call.waited_on = "event" => call.status = "CL_SUCCESS"
    /\ (call.status = "NOT_ENQUEUED" /\ call.failure = NoError) =>
         call.ret = "TRUE" /\ call.waited_on = "none"


\* the asynchronous dispatch operations
DispatchOps == BufferOps \cup {"gocl_kernel_run_in_device"} \cup GlOps

\* C24: an event returned by an asynchronous dispatch operation is already
\* resolved or holds the cl_event a successful native enqueue returned, so
\* the assertion of gocl_event_then holds and no waiter is given a missing
\* or unset handle, GL acquire / release with an empty object list included
C24_DispatchedEventWaitable ==
  /\ ~aborted
  /\ \A e \in EventIds :
       events[e].origin \in DispatchOps =>
         events[e].already_resolved \/ events[e].event = "H"

\* C26: every asynchronous dispatch operation leaves exactly one idle source
\* that releases the creator's reference to the event it returns
C26_IdleUnrefScheduled ==
  [][\A e \in EventIds :
       (EventStep(e) /\ events'[e].origin \in DispatchOps) =>
         /\ events'[e].unref_src_id # 0
         /\ Cardinality({ci \in Contexts \X (1..MaxClosures + 1) :
              /\ ci[2] \in DOMAIN sources'[ci[1]]
              /\ sources'[ci[1]][ci[2]].fn = "unref_in_idle"
              /\ sources'[ci[1]][ci[2]].data = e}) = 1]_vars

\* C29: the event of a gocl_device_acquire_gl_objects / _release_gl_objects
\* whose native enqueue failed is resolved with the error of that status,
\* whatever other threads do to the last-error slot meanwhile, and an event
\* of a failed submission is never resolved without an error
C29_GlErrorIsOwn ==
  \A e \in EventIds :
    events[e].origin \in GlOps =>
      /\ events[e].err_code \notin {"CL_SUCCESS", "NOT_ENQUEUED"} =>
           /\ events[e].already_resolved
           /\ events[e].error = gocl_error_check_opencl(events[e].err_code)
      /\ (events[e].already_resolved /\ events[e].event = "NULL") =>
           events[e].error # NoError


\* the main loops have nothing left to dispatch and no waiter thread of the
\* event is alive
Drained(e) ==
  /\ ~aborted
  /\ \A ctx \in Contexts : sources[ctx] = <<>>
  /\ waiter[e] \in {"none", "exited"}

\* C25: every reference gocl_event_then takes is released in the end: once
\* the event is resolved, the creator's idle unref has run and the main
\* loops have drained, the event has no reference left and is finalized,
\* whenever its gocl_event_then calls were made
C25_ThenRefsReleased ==
  \A e \in EventIds :
    (events[e].already_resolved /\ IdleUnrefDone(e) /\ Drained(e)) =>
      events[e].ref_count = 0 /\ events[e].finalized


C28_ErrorFreedOnce ==
  /\ \A e \in EventIds : events[e].error_freed <= 1
  /\ \A c \in DOMAIN closures : ~closures[c].got_freed

====
